---- MODULE Spec2Model ----
(***************************************************************************)
(* Galactic Taxi (xp-game-web): the GameEngine fixed-timestep scheduler.    *)
(*                                                                         *)
(* Time is measured in integer clock ticks.  One update interval           *)
(* (updateTime = 1000 / targetUPS milliseconds) is TicksPerUpdate ticks,   *)
(* so the 1000 ms of the source is TicksPerUpdate * targetUPS ticks.       *)
(* performance.now() reads the clock, the variable now.  The timestamp the  *)
(* host passes to a frame callback is the time at which the host began the *)
(* frame, the variable frameStamp: it never decreases, it is never later   *)
(* than the clock and it is less than one update interval old, but it can  *)
(* be the time before the clock's last advance, so a start() or resume()   *)
(* that ran in between has read a later time than the callback is given.   *)
(***************************************************************************)
EXTENDS Integers, Sequences, FiniteSets, TLC

\* ---------------------------------------------------------------- bounds
\* resolution of the model clock: ticks per update interval
TicksPerUpdate == 2
\* number of times the clock advances in one behaviour
MaxTicks == 2
\* frame callbacks counted by stats.frameCount within one stats period
MaxFrames == 2
\* calls of updateGame in one behaviour
MaxUpdates == 2
\* keys down at the same time
MaxHeld == 2
\* keydown and keyup events in one behaviour
MaxKeyEvents == 3
\* calls of updateGame in one behaviour computed in double precision
MaxDoubleUpdates == 60

\* the largest targetFPS, targetUPS and maxFrameSkip a config object has
MaxRate == 3
\* the most credits the start screen holds
MaxCredits == 2
\* pre-warms of the game audio that are under way at the same time
MaxPrewarm == 2
\* key events delivered while the game is played with its frames
MaxPlayEvents == 2
\* advances of the clock while a fair host delivers the frames
MaxLiveTicks == 6

\* ------------------------------------------------ configuration (initGame)
targetUPS == 60
maxFrameSkip == 5

\* the literal 1000 (milliseconds) of the source, in clock ticks
Ms1000 == TicksPerUpdate * targetUPS
\* this.updateTime = 1000 / this.targetUPS
updateTime == Ms1000 \div targetUPS

\* the callbacks of a GameEngine; each is null until it is assigned
HookNames == {"onUpdate", "onRender", "onInit", "onPause", "onResume", "onStop"}

\* the hooks initGame registers; onPause and onResume stay null
GameHooks == {"onInit", "onUpdate", "onRender", "onStop"}

\* amounts by which the clock advances between two events
TickSteps == {1, maxFrameSkip * updateTime, Ms1000}

VARIABLES
    now,         \* the wall clock (performance.now())
    frameStamp,  \* the timestamp the host passes to a frame callback
    ticks,       \* how many times the clock has advanced
    gameEngine,  \* the fields of the GameEngine instance
    hooks,       \* the hooks that are registered (not null)
    pending,     \* handles of the frame callbacks scheduled with the host
    trace,       \* hooks invoked by the last operation, in order
    op,          \* the last operation: its name and the values it worked on
    phase,       \* "stopped", "running", "paused", "resumed" (no frame since resume())
    pauseInfo,   \* while paused or resumed: what the pause found and did
    negDelta,    \* a frame callback of this run had a negative deltaTime
    run,         \* this run's totals: update-hook calls, frame deltas, clamping
    taxi,        \* the taxi object
    keys,        \* the keys object: which thrusters are on
    held,        \* the keyboard keys that are physically down
    screen,      \* the window's inner size and the taxi sprite's size
    call,        \* the last call of updateGame or of a key listener
    built,       \* the config given to new GameEngine and the fields made of it
    credits,     \* start screen: the credits inserted
    active,      \* the game screen has the class "active"
    hidden,      \* the start screen has the class "hidden"
    prewarm      \* calls of prewarmGameAudio() whose promise is not yet settled

engine == <<now, frameStamp, ticks, gameEngine, hooks, pending, trace, op, phase, pauseInfo, negDelta, run, built>>
input == <<keys, held, screen, call>>
page == <<credits, active, hidden, prewarm>>
vars == <<engine, taxi, input, page>>

\* ------------------------------------------------------------ GameEngine
\* a / b of two numbers, as the fraction num / den; a positive number over
\* 0 is Infinity, the fraction with den = 0
Divide(a, b) == [num |-> a, den |-> b]
Finite(q) == q.den # 0

\* Math.round of the non-negative quotient n / d
Round(n, d) == (2 * n + d) \div (2 * d)

\* `if (this.onX) this.onX(...)`
HookCall(h, hk) == IF h \in hk THEN <<h>> ELSE <<>>

\* requestAnimationFrame: a handle that names no other scheduled callback
requestAnimationFrame(pend) ==
    CHOOSE id \in 1..(Cardinality(pend) + 1) : id \notin pend

cancelAnimationFrame(pend, id) == pend \ {id}

resetStats(t) ==
    [fps |-> 0, ups |-> 0, frameCount |-> 0, updateCount |-> 0, lastStatsTime |-> t]

updateStats(st, t) ==
    LET elapsed == t - st.lastStatsTime
    IN IF elapsed >= Ms1000
       THEN [fps |-> Round(st.frameCount * Ms1000, elapsed),
             ups |-> Round(st.updateCount * Ms1000, elapsed),
             frameCount |-> 0, updateCount |-> 0, lastStatsTime |-> t]
       ELSE st

\* the loop with a ceiling one below maxFrameSkip
LoopCondLowCap(acc, updateCount) ==
    acc >= updateTime /\ updateCount < maxFrameSkip - 1

\* the loop without the frame-skip ceiling
LoopCondNoCap(acc, updateCount) == acc >= updateTime

\* the loop with a strict comparison
LoopCondStrict(acc, updateCount) == acc > updateTime /\ updateCount < maxFrameSkip

\* the condition of the while loop of gameLoop
LoopCond(acc, updateCount) == acc >= updateTime /\ updateCount < maxFrameSkip

\* the update hook called with the frame's delta
UpdateArgFrameDelta(deltaTime) == deltaTime

\* the argument of an update hook call, `this.updateTime / 1000`, in ticks
UpdateArg(deltaTime) == updateTime

\* the while loop of gameLoop: the accumulator and the number of updates
\* run, and for each iteration the argument of its update hook call and
\* the accumulator before and after the iteration
UpdateCalls == Seq([dt : Int, before : Int, after : Int])

LoopFrom[acc \in Int, updateCount \in Nat, deltaTime \in Int, calls \in UpdateCalls] ==
    IF LoopCond(acc, updateCount)
    THEN LoopFrom[acc - updateTime, updateCount + 1, deltaTime,
                  Append(calls, [dt |-> UpdateArg(deltaTime), before |-> acc,
                                 after |-> acc - updateTime])]
    ELSE [accumulator |-> acc, updateCount |-> updateCount, calls |-> calls]

UpdateLoop(acc, updateCount, deltaTime) ==
    LoopFrom[acc, updateCount, deltaTime, <<>>]

\* "If we're lagging too much, reset accumulator"
Clamp(acc) ==
    IF acc > updateTime * maxFrameSkip THEN updateTime * maxFrameSkip ELSE acc

RECURSIVE Repeat(_, _)
Repeat(s, n) == IF n = 0 THEN <<>> ELSE s \o Repeat(s, n - 1)

\* render before the updates
FrameHooksRenderFirst(n, hk) ==
    HookCall("onRender", hk) \o Repeat(HookCall("onUpdate", hk), n)

\* the hooks one non-paused frame invokes: every update, then the render
FrameHooks(n, hk) == Repeat(HookCall("onUpdate", hk), n) \o HookCall("onRender", hk)

\* the alpha of a call that does not get to the render hook
NoAlpha == Divide(0, updateTime)

\* a frame that starts from an empty accumulator
RunFrameNoCarry(e, currentTime, t, hk) ==
    LET deltaTime == currentTime - e.lastFrameTime
        st == updateStats(e.stats, t)
        loop == UpdateLoop(deltaTime, 0, deltaTime)
    IN [e |-> [e EXCEPT !.lastFrameTime = currentTime,
                        !.accumulator = Clamp(loop.accumulator),
                        !.stats = [st EXCEPT !.updateCount = @ + loop.updateCount,
                                             !.frameCount = @ + 1]],
        trace |-> FrameHooks(loop.updateCount, hk),
        deltaTime |-> deltaTime,
        updates |-> loop.updateCount,
        calls |-> IF "onUpdate" \in hk THEN loop.calls ELSE <<>>,
        alpha |-> Divide(Clamp(loop.accumulator), updateTime),
        clamped |-> Clamp(loop.accumulator) # loop.accumulator]

\* the part of gameLoop after `if (this.isPaused) return`
RunFrame(e, currentTime, t, hk) ==
    LET deltaTime == currentTime - e.lastFrameTime
        st == updateStats(e.stats, t)
        loop == UpdateLoop(e.accumulator + deltaTime, 0, deltaTime)
    IN [e |-> [e EXCEPT !.lastFrameTime = currentTime,
                        !.accumulator = Clamp(loop.accumulator),
                        !.stats = [st EXCEPT !.updateCount = @ + loop.updateCount,
                                             !.frameCount = @ + 1]],
        trace |-> FrameHooks(loop.updateCount, hk),
        deltaTime |-> deltaTime,
        updates |-> loop.updateCount,
        calls |-> IF "onUpdate" \in hk THEN loop.calls ELSE <<>>,
        alpha |-> Divide(Clamp(loop.accumulator), updateTime),
        clamped |-> Clamp(loop.accumulator) # loop.accumulator]

\* no pause check in gameLoop
PausedReturnNever(e) == FALSE

\* `if (this.isPaused) return`
PausedReturn(e) == e.isPaused

\* gameLoop(currentTime), called by the host or by start()
gameLoop(e, currentTime, t, pend, hk) ==
    IF ~e.isRunning
    THEN [e |-> e, pending |-> pend, trace |-> <<>>,
          ran |-> FALSE, deltaTime |-> 0, updates |-> 0, calls |-> <<>>,
          alpha |-> NoAlpha, clamped |-> FALSE]
    ELSE LET id == requestAnimationFrame(pend)
             e1 == [e EXCEPT !.frameId = id]
         IN IF PausedReturn(e1)
            THEN [e |-> e1, pending |-> pend \cup {id}, trace |-> <<>>,
                  ran |-> FALSE, deltaTime |-> 0, updates |-> 0, calls |-> <<>>,
                  alpha |-> NoAlpha, clamped |-> FALSE]
            ELSE LET r == RunFrame(e1, currentTime, t, hk)
                 IN [e |-> r.e, pending |-> pend \cup {id}, trace |-> r.trace,
                     ran |-> TRUE, deltaTime |-> r.deltaTime, updates |-> r.updates,
                     calls |-> r.calls, alpha |-> r.alpha,
                     clamped |-> r.clamped]

\* start() without its guard
StartReturnNever(e) == FALSE

\* `if (this.isRunning) return`
StartReturn(e) == e.isRunning

\* start() that leaves the accumulator as it finds it
StartFieldsKeepAccumulator(e, t) ==
    [e EXCEPT !.isRunning = TRUE, !.isPaused = FALSE,
              !.lastFrameTime = t, !.lastUpdateTime = t,
              !.stats = resetStats(t)]

\* start() that leaves isPaused as it finds it
StartFieldsKeepPaused(e, t) ==
    [e EXCEPT !.isRunning = TRUE,
              !.lastFrameTime = t, !.lastUpdateTime = t,
              !.accumulator = 0, !.stats = resetStats(t)]

\* the fields start() writes before it calls the init hook
StartFields(e, t) ==
    [e EXCEPT !.isRunning = TRUE, !.isPaused = FALSE,
              !.lastFrameTime = t, !.lastUpdateTime = t,
              !.accumulator = 0, !.stats = resetStats(t)]

\* start() that calls this.onInit() without looking at it: with the hook
\* null the call throws and start() ends there
startInitRequired(e, t, pend, hk) ==
    IF StartReturn(e)
    THEN [e |-> e, pending |-> pend, trace |-> <<>>, applied |-> FALSE,
          calls |-> <<>>, alpha |-> NoAlpha]
    ELSE IF "onInit" \notin hk
    THEN [e |-> StartFields(e, t), pending |-> pend, trace |-> <<>>,
          applied |-> TRUE, calls |-> <<>>, alpha |-> NoAlpha]
    ELSE LET e1 == StartFields(e, t)
             r == gameLoop(e1, e1.lastFrameTime, t, pend, hk)
         IN [e |-> r.e, pending |-> r.pending,
             trace |-> HookCall("onInit", hk) \o r.trace, applied |-> TRUE,
             calls |-> r.calls, alpha |-> r.alpha]

start(e, t, pend, hk) ==
    IF StartReturn(e)
    THEN [e |-> e, pending |-> pend, trace |-> <<>>, applied |-> FALSE,
          calls |-> <<>>, alpha |-> NoAlpha]
    ELSE LET e1 == StartFields(e, t)
             r == gameLoop(e1, e1.lastFrameTime, t, pend, hk)
         IN [e |-> r.e, pending |-> r.pending,
             trace |-> HookCall("onInit", hk) \o r.trace, applied |-> TRUE,
             calls |-> r.calls, alpha |-> r.alpha]

\* `if (!this.isRunning) return`
StopReturn(e) == ~e.isRunning

\* stop() that only flips the flag
StopCancelNone(e, pend) == pend

\* `if (this.frameId) { cancelAnimationFrame(this.frameId); ... }`
StopCancel(e, pend) ==
    IF e.frameId # 0 THEN cancelAnimationFrame(pend, e.frameId) ELSE pend

stop(e, pend, hk) ==
    IF StopReturn(e)
    THEN [e |-> e, pending |-> pend, trace |-> <<>>, applied |-> FALSE]
    ELSE [e |-> [e EXCEPT !.isRunning = FALSE, !.frameId = 0],
          pending |-> StopCancel(e, pend),
          trace |-> HookCall("onStop", hk), applied |-> TRUE]

\* `if (!this.isRunning || this.isPaused) return`
PauseReturn(e) == ~e.isRunning \/ e.isPaused

pause(e, hk) ==
    IF PauseReturn(e)
    THEN [e |-> e, trace |-> <<>>, applied |-> FALSE]
    ELSE [e |-> [e EXCEPT !.isPaused = TRUE],
          trace |-> HookCall("onPause", hk), applied |-> TRUE]

\* resume() that does not look at isRunning
ResumeReturnPausedOnly(e) == ~e.isPaused

\* `if (!this.isRunning || !this.isPaused) return`
ResumeReturn(e) == ~e.isRunning \/ ~e.isPaused

\* resume() that keeps the old wall-clock reference
ResumeFieldsNoAnchor(e, t) == [e EXCEPT !.isPaused = FALSE]

\* resume() that restarts the accumulator
ResumeFieldsResetAcc(e, t) ==
    [e EXCEPT !.isPaused = FALSE, !.lastFrameTime = t, !.lastUpdateTime = t,
              !.accumulator = 0]

\* the fields resume() writes
ResumeFields(e, t) ==
    [e EXCEPT !.isPaused = FALSE, !.lastFrameTime = t, !.lastUpdateTime = t]

resume(e, t, hk) ==
    IF ResumeReturn(e)
    THEN [e |-> e, trace |-> <<>>, applied |-> FALSE]
    ELSE [e |-> ResumeFields(e, t),
          trace |-> HookCall("onResume", hk), applied |-> TRUE]

\* getStats() that starts a new stats period
getStatsResetting(e) ==
    [e |-> [e EXCEPT !.stats.frameCount = 0, !.stats.updateCount = 0],
     value |-> [fps |-> e.stats.fps, ups |-> e.stats.ups,
                isRunning |-> e.isRunning, isPaused |-> e.isPaused]]

\* getStats(): the engine after the call and the object returned
getStats(e) ==
    [e |-> e,
     value |-> [fps |-> e.stats.fps, ups |-> e.stats.ups,
                isRunning |-> e.isRunning, isPaused |-> e.isPaused]]

\* ------------------------------------------------------- the taxi (initGame)
\* Velocities are in pixels per second times Ms1000, positions in pixels
\* times Ms1000 * Ms1000, time steps in clock ticks: with these units
\* v + a * dt and x + v * dt of the source are integer sums.  The
\* arithmetic is exact; the rounding of the source's doubles is not modelled.
Px(n) == n * Ms1000 * Ms1000
Vel(n) == n * Ms1000

\* the physics part of the config object passed to new GameEngine
config ==
    [gravityX100 |-> 981, pixelsPerMeter |-> 100,
     taxiStartX |-> <<1, 2>>, taxiStartY |-> <<1, 2>>,
     thrusterForce |-> 1500, regularFlightThrust |-> 500,
     hoverThrust |-> "null", hoverDamping |-> 800]

\* gameEngine.config.gravity * gameEngine.config.pixelsPerMeter
gravityPixels == (config.gravityX100 * config.pixelsPerMeter) \div 100

hoverThrustAsRegular == config.regularFlightThrust

\* "auto-calculate to match gravity if not specified"
hoverThrust ==
    IF config.hoverThrust = "null" THEN gravityPixels ELSE config.hoverThrust

\* let taxi = {...}
taxi0 ==
    [x |-> 0, y |-> 0, vx |-> 0, vy |-> 0, onGround |-> FALSE,
     hoverMode |-> FALSE, facingRight |-> FALSE, landingGear |-> FALSE]

\* const keys = {...}
keys0 == [w |-> FALSE, s |-> FALSE, a |-> FALSE, d |-> FALSE]

\* the values of taxi (its numbers as integers), of keys, and of the
\* window and sprite sizes
IntTaxis ==
    [x : Int, y : Int, vx : Int, vy : Int, onGround : BOOLEAN,
     hoverMode : BOOLEAN, facingRight : BOOLEAN, landingGear : BOOLEAN]
Keys == [{"w", "s", "a", "d"} -> BOOLEAN]
Windows ==
    [innerWidth : Nat, innerHeight : Nat, sprite : BOOLEAN,
     offsetWidth : Nat, offsetHeight : Nat]

\* window.innerWidth, window.innerHeight and the taxi sprite's offsetWidth
\* and offsetHeight (0 when the sprite element is missing), in position units
taxiWidth(scr) == IF scr.sprite THEN scr.offsetWidth ELSE 0
taxiHeight(scr) == IF scr.sprite THEN scr.offsetHeight ELSE 0

onInitPosition(t, scr) ==
    [t EXCEPT !.x = (scr.innerWidth * config.taxiStartX[1]) \div config.taxiStartX[2],
              !.y = (scr.innerHeight * config.taxiStartY[1]) \div config.taxiStartY[2],
              !.vx = 0, !.vy = 0]

\* gameEngine.onInit: the taxi at its start position, at rest
onInit(t, scr) ==
    [x |-> (scr.innerWidth * config.taxiStartX[1]) \div config.taxiStartX[2],
     y |-> (scr.innerHeight * config.taxiStartY[1]) \div config.taxiStartY[2],
     vx |-> 0, vy |-> 0, onGround |-> FALSE,
     hoverMode |-> FALSE, facingRight |-> FALSE, landingGear |-> FALSE]

DampNoClamp(v, dt) ==
    IF v > 0 THEN v - config.hoverDamping * dt
    ELSE IF v < 0 THEN v + config.hoverDamping * dt
    ELSE v

\* hover damping of one velocity component, clamped at zero
Damp(v, dt) ==
    IF v > 0
    THEN (IF v - config.hoverDamping * dt < 0 THEN 0 ELSE v - config.hoverDamping * dt)
    ELSE IF v < 0
    THEN (IF v + config.hoverDamping * dt > 0 THEN 0 ELSE v + config.hoverDamping * dt)
    ELSE v

\* the keys a and d: horizontal thrust and the direction the sprite faces
Sideways(t, k, dt) ==
    LET vx1 == IF k.a THEN t.vx - config.thrusterForce * dt ELSE t.vx
        vx2 == IF k.d THEN vx1 + config.thrusterForce * dt ELSE vx1
    IN [t EXCEPT !.vx = vx2,
                 !.facingRight = IF k.d THEN TRUE ELSE IF k.a THEN FALSE ELSE @]

\* the keys w and s: vertical thrust
UpDown(vy, k, dt) ==
    LET vy1 == IF k.w THEN vy - config.thrusterForce * dt ELSE vy
    IN IF k.s THEN vy1 + config.thrusterForce * dt ELSE vy1

\* updateGame, `if (taxi.hoverMode) {...}`
HoverVelocity(t, k, dt) ==
    LET t1 == [t EXCEPT !.vy = Damp(t.vy, dt), !.vx = Damp(t.vx, dt)]
        vy2 == t1.vy - hoverThrust * dt
        vy3 == UpDown(vy2, k, dt) + gravityPixels * dt
    IN Sideways([t1 EXCEPT !.vy = vy3], k, dt)

\* updateGame, `else {...}`: regular mode
RegularVelocity(t, k, dt) ==
    LET vy1 == t.vy - config.regularFlightThrust * dt
        t1 == Sideways([t EXCEPT !.vy = UpDown(vy1, k, dt)], k, dt)
    IN [t1 EXCEPT !.vy = @ + gravityPixels * dt]

\* "Update position based on velocity"
Integrate(t, dt) == [t EXCEPT !.x = @ + t.vx * dt, !.y = @ + t.vy * dt]

\* no check of the right boundary
CollideXLeftOnly(t, scr) ==
    IF t.x < taxiWidth(scr) \div 2
    THEN [t EXCEPT !.x = taxiWidth(scr) \div 2, !.vx = 0]
    ELSE t

\* "Left and right boundaries"
CollideX(t, scr) ==
    LET leftBoundary == taxiWidth(scr) \div 2
        rightBoundary == scr.innerWidth - taxiWidth(scr) \div 2
    IN IF t.x < leftBoundary THEN [t EXCEPT !.x = leftBoundary, !.vx = 0]
       ELSE IF t.x > rightBoundary THEN [t EXCEPT !.x = rightBoundary, !.vx = 0]
       ELSE t

\* the taxi keeps its vertical velocity when it hits the top
CollideYKeepVy(t, scr) ==
    IF t.y < 0
    THEN [t EXCEPT !.y = 0, !.onGround = FALSE]
    ELSE IF t.y >= scr.innerHeight - taxiHeight(scr)
    THEN [t EXCEPT !.y = scr.innerHeight - taxiHeight(scr), !.vy = 0, !.onGround = TRUE]
    ELSE [t EXCEPT !.onGround = FALSE]

\* onGround is set on landing and never cleared
CollideYGroundSticky(t, scr) ==
    IF t.y < 0
    THEN [t EXCEPT !.y = 0, !.vy = 0]
    ELSE IF t.y >= scr.innerHeight - taxiHeight(scr)
    THEN [t EXCEPT !.y = scr.innerHeight - taxiHeight(scr), !.vy = 0, !.onGround = TRUE]
    ELSE t

\* "Top and bottom boundaries"
CollideY(t, scr) ==
    LET topBoundary == 0
        bottomBoundary == scr.innerHeight - taxiHeight(scr)
    IN IF t.y < topBoundary
       THEN [t EXCEPT !.y = topBoundary, !.vy = 0, !.onGround = FALSE]
       ELSE IF t.y >= bottomBoundary
       THEN [t EXCEPT !.y = bottomBoundary, !.vy = 0, !.onGround = TRUE]
       ELSE [t EXCEPT !.onGround = FALSE]

\* explicit Euler: the position moves by the velocity the update found
MoveExplicit(t, k, dt) ==
    LET v == IF t.hoverMode THEN HoverVelocity(t, k, dt)
             ELSE RegularVelocity(t, k, dt)
    IN [v EXCEPT !.x = t.x + t.vx * dt, !.y = t.y + t.vy * dt]

\* updateGame up to the boundary checks: the new velocity and position
Move(t, k, dt) ==
    Integrate(IF t.hoverMode THEN HoverVelocity(t, k, dt)
              ELSE RegularVelocity(t, k, dt), dt)

\* a deployed landing gear drags on the taxi
updateGameGearDrag(t, k, dt, scr) ==
    CollideY(CollideX(Move([t EXCEPT !.vy = IF t.landingGear
                                            THEN @ + config.hoverDamping * dt
                                            ELSE @], k, dt), scr), scr)

\* updateGame(deltaTime)
updateGame(t, k, dt, scr) == CollideY(CollideX(Move(t, k, dt), scr), scr)

\* gameEngine.onUpdate = (deltaTime) => updateGame(deltaTime), once for
\* each update hook call of a frame
UpdateEach[t \in IntTaxis, k \in Keys, dts \in Seq(Int), scr \in Windows] ==
    IF dts = <<>> THEN t
    ELSE UpdateEach[updateGame(t, k, Head(dts), scr), k, Tail(dts), scr]

onUpdate(t, k, calls, scr) ==
    UpdateEach[t, k, [i \in DOMAIN calls |-> calls[i].dt], scr]

\* the taxi sprite element before anything is drawn
sprite0 == [src |-> "", visibility |-> "", left |-> 0, top |-> 0, transform |-> ""]

\* a render that moves the taxi on by its velocity before it draws it
renderGameExtrapolating(t, scr, sp) ==
    LET to == [t EXCEPT !.x = @ + t.vx, !.y = @ + t.vy]
    IN [taxi |-> to,
        sprite |-> IF scr.sprite
                   THEN [sp EXCEPT !.left = to.x - taxiWidth(scr) \div 2, !.top = to.y]
                   ELSE sp]

\* renderGame(alpha): the taxi and the sprite after it; alpha is not read
renderGame(t, scr, sp) ==
    [taxi |-> t,
     sprite |-> IF scr.sprite
                THEN [sp EXCEPT !.src = IF t.landingGear THEN "assets/taxi-gear.png"
                                        ELSE "assets/taxi.png",
                                !.left = t.x - taxiWidth(scr) \div 2,
                                !.top = t.y,
                                !.transform = IF t.facingRight THEN "scaleX(-1)"
                                              ELSE "scaleX(1)"]
                ELSE sp]

\* gameEngine.onRender = (alpha) => renderGame(alpha), if the frame ran
onRender(t, scr, sp, ran, hk) ==
    IF ran /\ "onRender" \in hk THEN renderGame(t, scr, sp)
    ELSE [taxi |-> t, sprite |-> sp]

\* ------------------------------------------- the constructor's config
\* A config object is a function from the fields it has to their values.
targetFPS == 60
defaultFPS == 60
defaultUPS == 60
defaultFrameSkip == 5

\* `config.f ?? d`: only a missing field gets the default
OrElseMissing(cfg, f, d) == IF f \in DOMAIN cfg THEN cfg[f] ELSE d

\* `config.f || d`: a missing field and a field that is 0 get the default
OrElse(cfg, f, d) == IF f \in DOMAIN cfg /\ cfg[f] # 0 THEN cfg[f] ELSE d

\* new GameEngine(config): the configuration and timing fields
GameEngine(cfg) ==
    LET fps == OrElse(cfg, "targetFPS", defaultFPS)
        ups == OrElse(cfg, "targetUPS", defaultUPS)
        skip == OrElse(cfg, "maxFrameSkip", defaultFrameSkip)
    IN [targetFPS |-> fps, targetUPS |-> ups, maxFrameSkip |-> skip,
        frameTime |-> Divide(1000, fps), updateTime |-> Divide(1000, ups)]

\* gameEngine = new GameEngine({targetFPS: 60, targetUPS: 60, maxFrameSkip: 5, ...})
initGame ==
    LET cfg == [targetFPS |-> targetFPS, targetUPS |-> targetUPS,
                maxFrameSkip |-> maxFrameSkip]
    IN [config |-> cfg, engine |-> <<GameEngine(cfg)>>]

\* ------------------------------------------------------------ the machine
\* new GameEngine(config)
constructor ==
    [lastFrameTime |-> 0, lastUpdateTime |-> 0, accumulator |-> 0,
     isRunning |-> FALSE, isPaused |-> FALSE, frameId |-> 0,
     stats |-> [fps |-> 0, ups |-> 0, frameCount |-> 0, updateCount |-> 0,
                lastStatsTime |-> 0]]

\* op: the last operation.  applied = the call got past its early return;
\* accBefore and wasPaused = the accumulator and isPaused it found.  For a
\* frame callback: ran = it got past the pause check, deltaTime and updates =
\* its locals, resumed = it is the first one to run after a resume(), and
\* then sinceResume = the time since that resume(), pausedFor = how long the
\* pause lasted, accAtPause = the accumulator when pause() was called,
\* pausedFrames = a frame callback was delivered during the pause.  For
\* getStats(): value = the object it returned.  For a frame callback and
\* start(): alpha = the argument of the render hook call.
NoOp == [name |-> "new", applied |-> FALSE, accBefore |-> 0, wasPaused |-> FALSE,
         ran |-> FALSE, deltaTime |-> 0, updates |-> 0, resumed |-> FALSE,
         sinceResume |-> 0, pausedFor |-> 0, accAtPause |-> 0,
         pausedFrames |-> FALSE, calls |-> <<>>,
         value |-> [fps |-> 0, ups |-> 0, isRunning |-> FALSE, isPaused |-> FALSE],
         alpha |-> NoAlpha]

\* call: the last step of UpdateGame, KeyDown or KeyUp.  name =
\* "updateGame", "keydown", "keyup" or "none"; taxi = the taxi it found;
\* for updateGame, dt = its argument, hit = it moved the taxi back to a
\* boundary; for a key event, key = event.key, repeat = the key was
\* already down (the host repeats keydown while a key is held), live = the
\* engine was running and not paused when the event arrived, events = the
\* key events so far; n = the calls of updateGame so far, elapsed = the sum of their
\* time steps, first = the taxi before the first of them, clear = none of
\* them moved the taxi back to a boundary; sprite = the taxi sprite's src,
\* left, top and transform as last written; for the start screen's
\* listener, coins = the credits the 1 and 2 keys inserted since the last 0
\* key, games = the times the game screen was shown since then
NoCall ==
    [name |-> "none", dt |-> 0, taxi |-> taxi0, hit |-> FALSE,
     key |-> "", repeat |-> FALSE, live |-> FALSE, events |-> 0,
     n |-> 0, elapsed |-> 0, first |-> taxi0, clear |-> TRUE,
     sprite |-> sprite0, coins |-> 0, games |-> 0]

\* a window and a taxi sprite
Screen0 ==
    [innerWidth |-> Px(800), innerHeight |-> Px(600), sprite |-> TRUE,
     offsetWidth |-> Px(64), offsetHeight |-> Px(32)]

Call(name, applied) ==
    [NoOp EXCEPT !.name = name, !.applied = applied,
                 !.accBefore = gameEngine.accumulator,
                 !.wasPaused = gameEngine.isPaused]

\* pauseInfo: acc = the accumulator when pause() was called, at = the clock
\* then, frames = a frame callback was delivered since, resumeAt = the clock
\* when resume() was called
NoPause == [acc |-> 0, at |-> 0, frames |-> FALSE, resumeAt |-> 0]

\* run, since the last start(): updates = calls of the update hook, delta =
\* the sum of the deltaTime of the frame callbacks that were not paused,
\* clamped = the accumulator clamp has changed the accumulator, over = a
\* deltaTime was above maxFrameSkip * updateTime
NoRun == [updates |-> 0, delta |-> 0, clamped |-> FALSE, over |-> FALSE]

Init ==
    /\ now = 0
    /\ frameStamp = 0
    /\ ticks = 0
    /\ gameEngine = constructor
    /\ hooks = GameHooks
    /\ pending = {}
    /\ trace = <<>>
    /\ op = NoOp
    /\ phase = "stopped"
    /\ pauseInfo = NoPause
    /\ negDelta = FALSE
    /\ run = NoRun
    /\ taxi = taxi0
    /\ keys = keys0
    /\ held = {}
    /\ screen = Screen0
    /\ call = NoCall
    /\ built = initGame
    /\ credits = 0
    /\ active = FALSE
    /\ hidden = FALSE
    /\ prewarm = 0

\* the wall clock advances; the frame the host is in begins now, or it
\* began at the old clock value if that is less than an update interval ago
Advance(steps) ==
    /\ ticks' = ticks + 1
    /\ \E d \in steps :
          /\ now' = now + d
          /\ frameStamp' \in {time \in {now, now + d} : now + d - time < updateTime}
    /\ UNCHANGED <<gameEngine, hooks, pending, trace, op, phase, pauseInfo, negDelta, run, built>>
    /\ UNCHANGED <<taxi, input, page>>

Tick == ticks < MaxTicks /\ Advance(TickSteps)

\* gameEngine.start() and what it does to the engine, the taxi and the sprite
StartEngine ==
    \E r \in {start(gameEngine, now, pending, hooks)} :
       /\ gameEngine' = r.e
       /\ pending' = r.pending
       /\ trace' = r.trace
       /\ op' = [Call("start", r.applied) EXCEPT !.calls = r.calls, !.alpha = r.alpha]
       /\ \E t0 \in {IF r.applied /\ "onInit" \in hooks
                     THEN onInit(taxi, screen) ELSE taxi} :
            \E drawn \in {onRender(onUpdate(t0, keys, r.calls, screen), screen,
                                   call.sprite, r.applied, hooks)} :
               /\ taxi' = drawn.taxi
               /\ call' = [call EXCEPT !.sprite = drawn.sprite]
       /\ phase' = IF r.applied THEN "running" ELSE phase
       /\ pauseInfo' = IF r.applied THEN NoPause ELSE pauseInfo
       /\ negDelta' = IF r.applied THEN FALSE ELSE negDelta
       /\ run' = IF r.applied THEN NoRun ELSE run
       /\ UNCHANGED <<now, frameStamp, ticks, hooks, built, keys, held, screen>>

Start == StartEngine /\ UNCHANGED page

\* gameEngine.stop() and what it does to the engine
StopEngine ==
    \E r \in {stop(gameEngine, pending, hooks)} :
       /\ gameEngine' = r.e
       /\ pending' = r.pending
       /\ trace' = r.trace
       /\ op' = Call("stop", r.applied)
       /\ phase' = IF r.applied THEN "stopped" ELSE phase
       /\ pauseInfo' = IF r.applied THEN NoPause ELSE pauseInfo
       /\ UNCHANGED <<now, frameStamp, ticks, hooks, negDelta, run, built>>

Stop == StopEngine /\ UNCHANGED <<taxi, input, page>>

\* gameEngine.pause() and what it does to the engine
PauseEngine ==
    \E r \in {pause(gameEngine, hooks)} :
       /\ gameEngine' = r.e
       /\ trace' = r.trace
       /\ op' = Call("pause", r.applied)
       /\ phase' = IF r.applied THEN "paused" ELSE phase
       /\ pauseInfo' = IF r.applied
                       THEN [NoPause EXCEPT !.acc = gameEngine.accumulator, !.at = now]
                       ELSE pauseInfo
       /\ UNCHANGED <<now, frameStamp, ticks, hooks, pending, negDelta, run, built>>

Pause == PauseEngine /\ UNCHANGED <<taxi, input, page>>

\* gameEngine.resume() and what it does to the engine
ResumeEngine ==
    \E r \in {resume(gameEngine, now, hooks)} :
       /\ gameEngine' = r.e
       /\ trace' = r.trace
       /\ op' = Call("resume", r.applied)
       /\ phase' = IF r.applied THEN "resumed" ELSE phase
       /\ pauseInfo' = IF r.applied THEN [pauseInfo EXCEPT !.resumeAt = now]
                       ELSE pauseInfo
       /\ UNCHANGED <<now, frameStamp, ticks, hooks, pending, negDelta, run, built>>

Resume == ResumeEngine /\ UNCHANGED <<taxi, input, page>>

\* the host runs a scheduled frame callback: (time) => this.gameLoop(time)
Deliver(most) ==
    \E h \in pending :
      \E r \in {gameLoop(gameEngine, frameStamp, now, pending \ {h}, hooks)} :
        LET time == frameStamp
            first == r.ran /\ phase = "resumed"
        IN /\ r.e.stats.frameCount <= most
           /\ gameEngine' = r.e
           /\ pending' = r.pending
           /\ trace' = r.trace
           /\ op' = [Call("gameLoop", gameEngine.isRunning) EXCEPT
                        !.ran = r.ran, !.deltaTime = r.deltaTime,
                        !.updates = r.updates, !.calls = r.calls,
                        !.alpha = r.alpha,
                        !.resumed = first,
                        !.sinceResume = IF first THEN time - pauseInfo.resumeAt ELSE 0,
                        !.pausedFor = IF first THEN pauseInfo.resumeAt - pauseInfo.at ELSE 0,
                        !.accAtPause = IF first THEN pauseInfo.acc ELSE 0,
                        !.pausedFrames = first /\ pauseInfo.frames]
           /\ phase' = IF first THEN "running" ELSE phase
           /\ pauseInfo' = IF first THEN NoPause
                           ELSE IF phase = "paused" THEN [pauseInfo EXCEPT !.frames = TRUE]
                           ELSE pauseInfo
           /\ negDelta' = (negDelta \/ (r.ran /\ r.deltaTime < 0))
           /\ run' = IF r.ran
                     THEN [updates |-> run.updates + Len(r.calls),
                           delta |-> run.delta + r.deltaTime,
                           clamped |-> run.clamped \/ r.clamped,
                           over |-> run.over
                                    \/ r.deltaTime > maxFrameSkip * updateTime]
                     ELSE run
           /\ \E drawn \in {onRender(onUpdate(taxi, keys, r.calls, screen), screen,
                                     call.sprite, r.ran, hooks)} :
                 /\ taxi' = drawn.taxi
                 /\ call' = [call EXCEPT !.sprite = drawn.sprite]
           /\ UNCHANGED <<now, frameStamp, ticks, hooks, built, keys, held, screen, page>>

Frame == Deliver(MaxFrames)

\* gameEngine.getStats()
GetStats ==
    \E r \in {getStats(gameEngine)} :
       /\ gameEngine' = r.e
       /\ trace' = <<>>
       /\ op' = [Call("getStats", TRUE) EXCEPT !.value = r.value]
       /\ UNCHANGED <<now, frameStamp, ticks, hooks, pending, phase, pauseInfo,
                      negDelta, run, built, taxi, input, page>>

Next == Tick \/ Start \/ Stop \/ Pause \/ Resume \/ Frame \/ GetStats

Spec == Init /\ [][Next]_vars

\* ------------------------------------------------------ a fair host
\* The host's clock keeps advancing, a step at a time, and the host keeps
\* calling the frame callback it was asked for, each time with a timestamp
\* later than the one before: a callback that comes after several steps of
\* the clock has a delta of several steps.
LiveSteps == {1}

LiveTick == ticks < MaxLiveTicks /\ Advance(LiveSteps)

LiveFrame ==
    /\ gameEngine.isRunning /\ ~gameEngine.isPaused
          => frameStamp > gameEngine.lastFrameTime
    /\ Deliver(MaxLiveTicks + 1)

LiveNext == LiveTick \/ LiveFrame \/ Start \/ Stop \/ Pause

LiveSpec ==
    Init /\ [][LiveNext]_vars /\ WF_vars(LiveTick) /\ WF_vars(LiveFrame)

\* ------------------------------------------------- updateGame on its own
\* the time steps updateGame is called with: less than an update interval,
\* the interval the engine passes, and several intervals
TimeSteps == {1, updateTime, maxFrameSkip * updateTime}

\* windows, each at least as large as the taxi sprite: with the sprite
\* element and without it
Screens == {Screen0, [Screen0 EXCEPT !.sprite = FALSE]}

leftBoundary(scr) == taxiWidth(scr) \div 2
rightBoundary(scr) == scr.innerWidth - taxiWidth(scr) \div 2
bottomBoundary(scr) == scr.innerHeight - taxiHeight(scr)

\* positions and velocities of the taxi before a call: in the middle of
\* the window, at and near each boundary, and beyond the left, right and
\* bottom boundary (where a taxi is after the sprite or the window changed
\* size); slower and faster than one step of hover damping
Motions(scr) ==
    LET mx == scr.innerWidth \div 2
        my == scr.innerHeight \div 2
        m(x, vx, y, vy) == [x |-> x, vx |-> vx, y |-> y, vy |-> vy]
    IN {m(mx, 0, my, 0),
        m(leftBoundary(scr) - Px(5), Vel(-50), my, 0),
        m(leftBoundary(scr), Vel(-5), my, 0),
        m(mx, Vel(5), my, 0),
        m(mx, Vel(-50), my, 0),
        m(mx, Vel(50), my, 0),
        m(rightBoundary(scr), Vel(50), my, 0),
        m(rightBoundary(scr) + Px(5), 0, my, 0),
        m(mx, 0, my, Vel(5)),
        m(mx, 0, my, Vel(-5)),
        m(mx, 0, my, Vel(50)),
        m(mx, 0, my, Vel(-50)),
        m(mx, 0, 0, Vel(-50)),
        m(mx, 0, bottomBoundary(scr) + Px(5), 0),
        m(mx, 0, bottomBoundary(scr), 0),
        m(mx, 0, bottomBoundary(scr) - Px(1), Vel(100))}

\* a started engine: updateGame is the engine's update hook
Started == start(constructor, 0, {}, GameHooks)

InitUpdateGame ==
    /\ now = 0
    /\ frameStamp = 0
    /\ ticks = 0
    /\ gameEngine = Started.e
    /\ hooks = GameHooks
    /\ pending = Started.pending
    /\ trace = Started.trace
    /\ op = [Call("start", TRUE) EXCEPT !.accBefore = 0, !.wasPaused = FALSE]
    /\ phase = "running"
    /\ pauseInfo = NoPause
    /\ negDelta = FALSE
    /\ run = NoRun
    /\ screen \in Screens
    /\ \E m \in Motions(screen), f \in [{"onGround", "hoverMode", "landingGear"} -> BOOLEAN] :
          taxi = [x |-> m.x, y |-> m.y, vx |-> m.vx, vy |-> m.vy,
                  onGround |-> f["onGround"], hoverMode |-> f["hoverMode"],
                  facingRight |-> FALSE, landingGear |-> f["landingGear"]]
    /\ keys \in [{"w", "s", "a", "d"} -> BOOLEAN]
    /\ held = {k \in {"w", "s", "a", "d"} : keys[k]}
    /\ call = [NoCall EXCEPT !.first = taxi,
                             !.sprite = renderGame(taxi, screen, sprite0).sprite]
    /\ built = initGame
    /\ credits = 0
    /\ active = TRUE
    /\ hidden = TRUE
    /\ prewarm = 0

\* one call of the update hook, updateGame(dt), with dt from steps
Update(steps) ==
    /\ gameEngine.isRunning
    /\ ~gameEngine.isPaused
    /\ call.n < MaxUpdates
    /\ \E dt \in steps :
          LET moved == Move(taxi, keys, dt)
              hit == \/ moved.x < leftBoundary(screen)
                     \/ moved.x > rightBoundary(screen)
                     \/ moved.y < 0
                     \/ moved.y >= bottomBoundary(screen)
          IN /\ taxi' = updateGame(taxi, keys, dt, screen)
             /\ call' = [call EXCEPT !.name = "updateGame", !.dt = dt,
                                     !.taxi = taxi, !.hit = hit,
                                     !.n = @ + 1, !.elapsed = @ + dt,
                                     !.clear = @ /\ ~hit]
    /\ UNCHANGED <<engine, keys, held, screen, page>>

UpdateGame == Update(TimeSteps)

UpdateGameSpec == InitUpdateGame /\ [][UpdateGame]_vars

\* ------------------------------------------------ a run after a run
\* an engine stopped after a run that left the taxi anywhere
Stopped == stop(Started.e, Started.pending, GameHooks)

InitRestart ==
    /\ now = 0
    /\ frameStamp = 0
    /\ ticks = 0
    /\ gameEngine = Stopped.e
    /\ hooks = GameHooks
    /\ pending = Stopped.pending
    /\ trace = Stopped.trace
    /\ op = [NoOp EXCEPT !.name = "stop", !.applied = TRUE]
    /\ phase = "stopped"
    /\ pauseInfo = NoPause
    /\ negDelta = FALSE
    /\ run = NoRun
    /\ screen \in Screens
    /\ \E m \in Motions(screen),
          f \in [{"onGround", "hoverMode", "facingRight", "landingGear"} -> BOOLEAN] :
          taxi = [x |-> m.x, y |-> m.y, vx |-> m.vx, vy |-> m.vy,
                  onGround |-> f["onGround"], hoverMode |-> f["hoverMode"],
                  facingRight |-> f["facingRight"], landingGear |-> f["landingGear"]]
    /\ keys \in {keys0, [keys0 EXCEPT !["w"] = TRUE, !["d"] = TRUE]}
    /\ held = {k \in {"w", "s", "a", "d"} : keys[k]}
    /\ call = [NoCall EXCEPT !.first = taxi,
                             !.sprite = renderGame(taxi, screen, sprite0).sprite]
    /\ built = initGame
    /\ credits = 0
    /\ active = TRUE
    /\ hidden = TRUE
    /\ prewarm = 0

RestartNext == Start \/ UpdateGame \/ Stop

RestartSpec == InitRestart /\ [][RestartNext]_vars

\* ------------------------------------------------------- the keyboard
\* The listeners act while the game screen is active (the engine exists
\* from initGame on).  held = the keys that are down, by their event.key.
KeyNames ==
    {"w", "s", "a", "d", "ArrowUp", "ArrowDown", "ArrowLeft", "ArrowRight",
     "h", "H", " ", "p"}

\* event.key.toLowerCase()
toLowerCase(k) ==
    CASE k = "H" -> "h"
      [] k = "ArrowUp" -> "arrowup"
      [] k = "ArrowDown" -> "arrowdown"
      [] k = "ArrowLeft" -> "arrowleft"
      [] k = "ArrowRight" -> "arrowright"
      [] OTHER -> k

\* the thruster a key drives: w, s, a, d by the lower-cased key, the arrow
\* keys by event.key; "" for every other key
Thruster(k) ==
    CASE toLowerCase(k) \in {"w", "s", "a", "d"} -> toLowerCase(k)
      [] k = "ArrowUp" -> "w"
      [] k = "ArrowDown" -> "s"
      [] k = "ArrowLeft" -> "a"
      [] k = "ArrowRight" -> "d"
      [] OTHER -> ""

\* toggles that act whether or not the engine runs unpaused
ToggleAlways(t, k, live) ==
    LET key == toLowerCase(k)
    IN [t EXCEPT !.hoverMode = IF key = "h" THEN ~@ ELSE @,
                 !.landingGear = IF k = " " THEN ~@ ELSE @]

\* the keydown listener's toggles of hover mode (h) and landing gear (space)
Toggle(t, k, live) ==
    LET key == toLowerCase(k)
        hover == IF (key = "h" \/ key = "H") /\ live
                 THEN ~t.hoverMode ELSE t.hoverMode
        gear == IF k = " " /\ live THEN ~t.landingGear ELSE t.landingGear
    IN [t EXCEPT !.hoverMode = hover, !.landingGear = gear]

\* the keydown listener's thruster controls
Thrust(ks, k, live) ==
    IF live /\ Thruster(k) # "" THEN [ks EXCEPT ![Thruster(k)] = TRUE] ELSE ks

\* the keyup listener
Release(ks, k) ==
    IF Thruster(k) # "" THEN [ks EXCEPT ![Thruster(k)] = FALSE] ELSE ks

\* the game as initGame leaves it once the game screen shows: the engine
\* started, onInit has placed the taxi, no key is down
InitKeys ==
    /\ now = 0
    /\ frameStamp = 0
    /\ ticks = 0
    /\ gameEngine = Started.e
    /\ hooks = GameHooks
    /\ pending = Started.pending
    /\ trace = Started.trace
    /\ op = [Call("start", TRUE) EXCEPT !.accBefore = 0, !.wasPaused = FALSE]
    /\ phase = "running"
    /\ pauseInfo = NoPause
    /\ negDelta = FALSE
    /\ run = NoRun
    /\ screen = Screen0
    /\ taxi = onInit(taxi0, Screen0)
    /\ keys = keys0
    /\ held = {}
    /\ call = [NoCall EXCEPT !.first = taxi,
                             !.sprite = renderGame(taxi, screen, sprite0).sprite]
    /\ built = initGame
    /\ credits = 0
    /\ active = TRUE
    /\ hidden = TRUE
    /\ prewarm = 0

\* a keydown event: a key goes down, or the host repeats the keydown of a
\* key that is held
KeyDownOf(names) ==
    \E k \in names :
       LET key == toLowerCase(k)
           live == active /\ gameEngine.isRunning /\ ~gameEngine.isPaused
       IN /\ call.events < MaxKeyEvents
          /\ k \in held \/ Cardinality(held) < MaxHeld
          /\ IF active /\ key = "p"
             THEN IF gameEngine.isPaused THEN ResumeEngine
                  ELSE IF gameEngine.isRunning THEN PauseEngine
                  ELSE UNCHANGED engine
             ELSE UNCHANGED engine
          /\ taxi' = Toggle(taxi, k, live)
          /\ keys' = Thrust(keys, k, live)
          /\ held' = held \cup {k}
          /\ call' = [call EXCEPT !.name = "keydown", !.key = k,
                                  !.repeat = k \in held, !.live = live,
                                  !.events = @ + 1, !.taxi = taxi]
          /\ UNCHANGED <<screen, page>>

KeyDown == KeyDownOf(KeyNames)

\* a keyup event: a key that is down goes up
KeyUp ==
    \E k \in held :
       /\ call.events < MaxKeyEvents
       /\ keys' = IF active THEN Release(keys, k) ELSE keys
       /\ held' = held \ {k}
       /\ call' = [call EXCEPT !.name = "keyup", !.key = k, !.repeat = FALSE,
                               !.live = active /\ gameEngine.isRunning /\ ~gameEngine.isPaused,
                               !.events = @ + 1, !.taxi = taxi]
       /\ UNCHANGED <<engine, taxi, screen, page>>

\* the engine's call of the update hook: this.onUpdate(this.updateTime / 1000)
UpdateTick == Update({UpdateArg(0)})

\* the engine's call of the render hook: this.onRender(alpha)
RenderTick ==
    /\ gameEngine.isRunning
    /\ ~gameEngine.isPaused
    /\ LET drawn == renderGame(taxi, screen, call.sprite)
       IN /\ taxi' = drawn.taxi
          /\ call' = [call EXCEPT !.name = "renderGame", !.taxi = taxi,
                                  !.sprite = drawn.sprite]
    /\ UNCHANGED <<engine, keys, held, screen, page>>

KeysNext == KeyDown \/ KeyUp \/ UpdateTick \/ RenderTick

KeysSpec == InitKeys /\ [][KeysNext]_vars

\* the game being played: key events (a thruster, the two toggles and the
\* pause key), the clock and the host's frame callbacks
PlayKeys == {"w", "h", " ", "p"}

PlayKeyDown == call.events < MaxPlayEvents /\ KeyDownOf(PlayKeys)

PlayKeyUp == call.events < MaxPlayEvents /\ KeyUp

PlayNext == PlayKeyDown \/ PlayKeyUp \/ Frame \/ Tick

PlaySpec == InitKeys /\ [][PlayNext]_vars

\* ------------------------------------------- the start screen and the game
\* The page as the scripts leave it when it has loaded: the start screen
\* shows, no credit, the engine constructed and not started.  A keydown
\* event runs the listener of start-screen.js; when that has written the
\* class of the game screen, the mutation observer of initGame runs as soon
\* as the listener returns, before any other event.  The keydown listener of
\* initGame acts on none of the keys below.
PageKeys == {"1", "2", "0", "Enter", "Escape", "w"}

\* the start screen never takes the game's keys away
isGameModeNever(a) == FALSE

\* isGameMode()
isGameMode(a) == a

\* Enter takes a credit and starts a game whatever the credits
startScreenKeyDownDebt(k, c, a, h) ==
    LET inGameMode == isGameMode(a)
        same == [credits |-> c, active |-> a, hidden |-> h]
    IN IF k = "Escape"
       THEN IF inGameMode THEN [same EXCEPT !.active = FALSE, !.hidden = FALSE]
            ELSE same
       ELSE IF inGameMode THEN same
       ELSE CASE k = "1" -> [same EXCEPT !.credits = c + 1]
              [] k = "2" -> [same EXCEPT !.credits = c + 2]
              [] k = "0" -> [same EXCEPT !.credits = 0]
              [] k = "Enter" -> [credits |-> c - 1, active |-> TRUE, hidden |-> TRUE]
              [] OTHER -> same

\* Enter starts a game whatever the credits
startScreenKeyDownFree(k, c, a, h) ==
    IF k = "Enter" /\ ~isGameMode(a)
    THEN [credits |-> c, active |-> TRUE, hidden |-> TRUE]
    ELSE IF k = "Escape" /\ isGameMode(a)
    THEN [credits |-> c, active |-> FALSE, hidden |-> FALSE]
    ELSE [credits |-> c, active |-> a, hidden |-> h]

\* the keydown listener of start-screen.js: the credits, whether the game
\* screen is active and whether the start screen is hidden when it returns
startScreenKeyDown(k, c, a, h) ==
    LET inGameMode == isGameMode(a)
        same == [credits |-> c, active |-> a, hidden |-> h]
    IN IF k = "Escape"
       THEN IF inGameMode THEN [same EXCEPT !.active = FALSE, !.hidden = FALSE]
            ELSE same
       ELSE IF inGameMode THEN same
       ELSE CASE k = "1" -> [same EXCEPT !.credits = c + 1]
              [] k = "2" -> [same EXCEPT !.credits = c + 2]
              [] k = "0" -> [same EXCEPT !.credits = 0]
              [] k = "Enter" -> IF c > 0
                                THEN [credits |-> c - 1, active |-> TRUE, hidden |-> TRUE]
                                ELSE same
              [] OTHER -> same

\* the observer, game screen active: "Position taxi sprite immediately"
Show(sp, scr) ==
    IF scr.sprite
    THEN [sp EXCEPT !.src = "assets/taxi.png", !.visibility = "visible",
                    !.left = (scr.innerWidth * config.taxiStartX[1]) \div config.taxiStartX[2]
                             - taxiWidth(scr) \div 2,
                    !.top = (scr.innerHeight * config.taxiStartY[1]) \div config.taxiStartY[2]]
    ELSE sp

\* the observer, game screen inactive: "Hide taxi sprite"
Hide(sp, scr) == IF scr.sprite THEN [sp EXCEPT !.visibility = "hidden"] ELSE sp

\* the MutationObserver callback of initGame for one change of the game
\* screen's class, found active (a) or not: what it does with the engine
Observer(a) ==
    IF a
    THEN /\ prewarm' = IF ~gameEngine.isRunning THEN prewarm + 1 ELSE prewarm
         /\ UNCHANGED engine
    ELSE /\ IF gameEngine.isRunning THEN StopEngine ELSE UNCHANGED engine
         /\ UNCHANGED prewarm

\* a keydown event on the page
PageKeyDown ==
    \E k \in PageKeys :
       LET r == startScreenKeyDown(k, credits, active, hidden)
           written == r.active # active
           sp == IF ~written THEN call.sprite
                 ELSE IF r.active THEN Show(call.sprite, screen)
                 ELSE Hide(call.sprite, screen)
       IN /\ call.events < MaxKeyEvents
          /\ r.credits <= MaxCredits
          /\ credits' = r.credits
          /\ active' = r.active
          /\ hidden' = r.hidden
          /\ IF written THEN Observer(r.active) ELSE UNCHANGED <<engine, prewarm>>
          /\ prewarm' <= MaxPrewarm
          /\ call' = [call EXCEPT !.name = "keydown", !.key = k,
                                  !.events = @ + 1, !.sprite = sp,
                                  !.coins = IF isGameMode(active) THEN @
                                            ELSE IF k = "1" THEN @ + 1
                                            ELSE IF k = "2" THEN @ + 2
                                            ELSE IF k = "0" THEN 0
                                            ELSE @,
                                  !.games = IF ~isGameMode(active) /\ k = "0" THEN 0
                                            ELSE IF r.active /\ ~active THEN @ + 1
                                            ELSE @]
          /\ UNCHANGED <<taxi, keys, held, screen>>

\* the promise of prewarmGameAudio() is fulfilled: .then(() => gameEngine.start())
PrewarmDone ==
    /\ prewarm > 0
    /\ prewarm' = prewarm - 1
    /\ StartEngine
    /\ UNCHANGED <<credits, active, hidden>>

PageNext == PageKeyDown \/ PrewarmDone \/ Frame \/ Tick

PageSpec == Init /\ [][PageNext]_vars

\* ------------------------------------------------ the constructor on its own
\* config objects with any of targetFPS, targetUPS and maxFrameSkip, each a
\* number from 0 on
Configs ==
    UNION {[fields -> 0..MaxRate] :
              fields \in SUBSET {"targetFPS", "targetUPS", "maxFrameSkip"}}

InitConstruct ==
    /\ now = 0
    /\ frameStamp = 0
    /\ ticks = 0
    /\ gameEngine = constructor
    /\ hooks = {}
    /\ pending = {}
    /\ trace = <<>>
    /\ op = NoOp
    /\ phase = "stopped"
    /\ pauseInfo = NoPause
    /\ negDelta = FALSE
    /\ run = NoRun
    /\ taxi = taxi0
    /\ keys = keys0
    /\ held = {}
    /\ screen = Screen0
    /\ call = NoCall
    /\ \E cfg \in Configs : built = [config |-> cfg, engine |-> <<>>]
    /\ credits = 0
    /\ active = FALSE
    /\ hidden = FALSE
    /\ prewarm = 0

\* new GameEngine(config)
New ==
    /\ built.engine = <<>>
    /\ built' = [built EXCEPT !.engine = <<GameEngine(built.config)>>]
    /\ UNCHANGED <<now, frameStamp, ticks, gameEngine, hooks, pending, trace, op,
                   phase, pauseInfo, negDelta, run, taxi, input, page>>

ConstructSpec == InitConstruct /\ [][New]_vars

\* ------------------------------------------------------------ properties
Count(seq, x) == Cardinality({i \in DOMAIN seq : seq[i] = x})
Min(a, b) == IF a < b THEN a ELSE b
\* the updates a frame runs on an accumulator that has reached acc
Updates(acc) == IF acc < updateTime THEN 0 ELSE Min(maxFrameSkip, acc \div updateTime)
RanFrame == op.name = "gameLoop" /\ op.ran
\* the step is the operation `name` (every step but a clock tick sets op)
IsCall(name) == ticks' = ticks /\ op'.name = name

\* C1: after each frame callback the accumulator is neither negative nor
\* above updateTime * maxFrameSkip, whatever the frame deltas
C1_AccumulatorBound ==
    /\ 0 <= gameEngine.accumulator
    /\ gameEngine.accumulator <= updateTime * maxFrameSkip

\* C2: no operation invokes the update hook more than maxFrameSkip times,
\* whatever the frame delta and the accumulator it found
C2_FrameSkipCeiling ==
    /\ Count(trace, "onUpdate") <= maxFrameSkip
    /\ op.updates <= maxFrameSkip

\* a frame callback whose delta is far above the ceiling runs maxFrameSkip updates
C2_Witness ==
    /\ RanFrame
    /\ op.deltaTime >= Ms1000
    /\ Count(trace, "onUpdate") = maxFrameSkip

C4_StopIsFinal ==
    ~gameEngine.isRunning =>
        /\ pending = {}
        /\ Count(trace, "onUpdate") = 0
        /\ Count(trace, "onRender") = 0

\* stop() on an engine that has run frames and had one scheduled
C4_Witness ==
    /\ op.name = "stop"
    /\ op.applied
    /\ gameEngine.stats.updateCount > 0
    /\ trace = <<"onStop">>
    /\ pending = {}

\* C5: a frame callback that finds the engine running and paused schedules
\* the next callback, invokes no hook and leaves accumulator, lastFrameTime
\* and the stats as they are
C5_PausedFrame ==
    [][(gameEngine.isRunning /\ gameEngine.isPaused /\ IsCall("gameLoop"))
       => /\ trace' = <<>>
          /\ gameEngine'.frameId \in pending'
          /\ gameEngine'.accumulator = gameEngine.accumulator
          /\ gameEngine'.lastFrameTime = gameEngine.lastFrameTime
          /\ gameEngine'.stats = gameEngine.stats]_vars

\* a frame callback delivered during a pause, with time gone by and a
\* remainder in the accumulator
C5_Witness ==
    /\ op.name = "gameLoop"
    /\ ~op.ran
    /\ gameEngine.isRunning
    /\ gameEngine.isPaused
    /\ gameEngine.accumulator > 0
    /\ now > gameEngine.lastFrameTime
    /\ gameEngine.frameId \in pending

\* C6: the first frame callback that runs after resume() adds to the
\* accumulator the time from resume() to its timestamp, so the updates it
\* runs are those of the accumulator at pause() plus that time, whatever
\* the pause lasted
C6_PauseNotCounted ==
    (op.name = "gameLoop" /\ op.resumed)
    => /\ op.deltaTime = op.sinceResume
       /\ op.updates = Updates(op.accAtPause + op.sinceResume)

\* a pause of a second or more, then a frame right after resume(): no update
C6_Witness ==
    /\ op.name = "gameLoop"
    /\ op.resumed
    /\ op.pausedFor >= Ms1000
    /\ op.sinceResume > 0
    /\ op.sinceResume < updateTime
    /\ op.updates = 0

\* C7: from pause() to the first frame callback that runs after resume()
\* the accumulator keeps the value it had when pause() was called
C7_AccumulatorKept ==
    /\ phase \in {"paused", "resumed"} => gameEngine.accumulator = pauseInfo.acc
    /\ (op.name = "gameLoop" /\ op.resumed) => op.accBefore = op.accAtPause

\* a pause with a remainder in the accumulator, frame callbacks during it
C7_Witness ==
    /\ op.name = "gameLoop"
    /\ op.resumed
    /\ op.pausedFrames
    /\ op.pausedFor > 0
    /\ op.accAtPause > 0

\* C8: a start() that takes effect leaves the engine running, not paused,
\* with accumulator 0 and the stats reset (its own first frame counted), and
\* invokes the init hook once, before anything else; no other operation
\* invokes the init hook
C8_Start ==
    /\ (op.name = "start" /\ op.applied)
       => /\ gameEngine.isRunning
          /\ ~gameEngine.isPaused
          /\ gameEngine.accumulator = 0
          /\ gameEngine.stats = [fps |-> 0, ups |-> 0, frameCount |-> 1,
                                 updateCount |-> 0,
                                 lastStatsTime |-> gameEngine.lastFrameTime]
          /\ Count(trace, "onInit") = 1
          /\ trace[1] = "onInit"
    /\ Count(trace, "onInit") > 0 => (op.name = "start" /\ op.applied)

\* start() of an engine that was stopped while paused, with a backlog
C8_Witness ==
    /\ op.name = "start"
    /\ op.applied
    /\ op.wasPaused
    /\ op.accBefore > 0
    /\ trace = <<"onInit", "onRender">>

\* C9: start() while running, stop() while not running, pause() while not
\* running or paused, resume() while not running or not paused change
\* nothing of the engine or of the scheduled callbacks and invoke no hook
C9_NoOpCalls ==
    [][(\/ IsCall("start") /\ gameEngine.isRunning
        \/ IsCall("stop") /\ ~gameEngine.isRunning
        \/ IsCall("pause") /\ (~gameEngine.isRunning \/ gameEngine.isPaused)
        \/ IsCall("resume") /\ (~gameEngine.isRunning \/ ~gameEngine.isPaused))
       => /\ gameEngine' = gameEngine
          /\ pending' = pending
          /\ trace' = <<>>]_vars

\* resume() on an engine that was stopped while paused
C9_Witness ==
    /\ op.name = "resume"
    /\ ~op.applied
    /\ ~gameEngine.isRunning
    /\ gameEngine.isPaused
    /\ trace = <<>>

\* C10: a frame callback that runs invokes the render hook once, as the
\* last hook it invokes: every update of the callback comes before it
C10_RenderLast ==
    RanFrame
    => /\ Count(trace, "onRender") = 1
       /\ trace[Len(trace)] = "onRender"
       /\ \A i \in 1..(Len(trace) - 1) : trace[i] = "onUpdate"

\* a frame callback with several updates
C10_Witness ==
    /\ RanFrame
    /\ op.updates >= 2
    /\ Len(trace) = op.updates + 1

C23_GetStatsReadOnly ==
    [][IsCall("getStats")
       => /\ gameEngine' = gameEngine
          /\ pending' = pending
          /\ trace' = <<>>
          /\ taxi' = taxi
          /\ op'.value = [fps |-> gameEngine.stats.fps, ups |-> gameEngine.stats.ups,
                          isRunning |-> gameEngine.isRunning,
                          isPaused |-> gameEngine.isPaused]]_vars

\* getStats() on a paused engine with a frame rate measured and frames
\* counted since
C23_Witness ==
    /\ op.name = "getStats"
    /\ op.value.isRunning /\ op.value.isPaused
    /\ op.value.fps > 0
    /\ gameEngine.stats.frameCount > 0

\* isRunning, isPaused, the accumulator, the update counter and the frame
\* counter of an engine
Counters(e) ==
    <<e.isRunning, e.isPaused, e.accumulator, e.stats.updateCount, e.stats.frameCount>>

\* registrations with a null hook: each one of the six hooks null, all of
\* them null, and the hooks initGame registers
NullHooks == {HookNames \ {h} : h \in HookNames} \cup {{}, GameHooks}

\* the call with the hooks hk registered and the others null (a) leaves the
\* counters that the call with every hook registered (b) leaves, and
\* invokes the hooks that b invokes and that are in hk, in the same order
Skipped(a, b, hk) ==
    LET Registered(h) == h \in hk
    IN /\ Counters(a.e) = Counters(b.e)
       /\ a.trace = SelectSeq(b.trace, Registered)

\* C24: a null hook is skipped and nothing else changes.  Every start(),
\* stop(), pause(), resume() and frame callback leaves isRunning, isPaused,
\* the accumulator, the update counter and the frame counter as the same
\* call leaves them with all six hooks registered, and so it does with any
\* one of the six hooks null and with all of them null; the hooks that are
\* registered are invoked as they are with all six registered.
C24_NullHooksSkipped ==
    [][/\ IsCall("start")
          => \E b \in {start(gameEngine, now, pending, HookNames)} :
                /\ Counters(gameEngine') = Counters(b.e)
                /\ \A hk \in NullHooks :
                      \E a \in {start(gameEngine, now, pending, hk)} : Skipped(a, b, hk)
       /\ IsCall("stop")
          => \E b \in {stop(gameEngine, pending, HookNames)} :
                /\ Counters(gameEngine') = Counters(b.e)
                /\ \A hk \in NullHooks :
                      \E a \in {stop(gameEngine, pending, hk)} : Skipped(a, b, hk)
       /\ IsCall("pause")
          => \E b \in {pause(gameEngine, HookNames)} :
                /\ Counters(gameEngine') = Counters(b.e)
                /\ \A hk \in NullHooks :
                      \E a \in {pause(gameEngine, hk)} : Skipped(a, b, hk)
       /\ IsCall("resume")
          => \E b \in {resume(gameEngine, now, HookNames)} :
                /\ Counters(gameEngine') = Counters(b.e)
                /\ \A hk \in NullHooks :
                      \E a \in {resume(gameEngine, now, hk)} : Skipped(a, b, hk)
       /\ IsCall("gameLoop")
          => \A h \in pending :
                \E b \in {gameLoop(gameEngine, frameStamp, now, pending \ {h}, HookNames)} :
                   /\ Counters(gameEngine') = Counters(b.e)
                   /\ \A hk \in NullHooks :
                         \E a \in {gameLoop(gameEngine, frameStamp, now, pending \ {h}, hk)} :
                            Skipped(a, b, hk)]_vars

\* pause() with the pause hook null, on an engine that has run updates
C24_Witness ==
    /\ op.name = "pause" /\ op.applied
    /\ "onPause" \notin hooks
    /\ trace = <<>>
    /\ gameEngine.isPaused
    /\ gameEngine.stats.updateCount > 0

\* the engine that new GameEngine(config) made
Made == built.engine[1]
Given(f) == f \in DOMAIN built.config

\* C25 as stated: an engine constructed with targetUPS = 0 has the update
\* interval 1000 / 0, which is not finite
C25_Original ==
    (built.engine # <<>> /\ Given("targetUPS") /\ built.config["targetUPS"] = 0)
    => ~Finite(Made.updateTime)

\* C25: the constructor takes a targetUPS of 0, like a missing one, for the
\* default: the engine has targetUPS = 60 and updateTime = 1000 / 60.  For
\* every config whose targetUPS is missing or a number from 0 on the
\* update interval is 1000 / targetUPS with targetUPS > 0: nothing is
\* divided by zero.
C25_ZeroIsDefault ==
    built.engine # <<>>
    => /\ Made.targetUPS > 0
       /\ Made.updateTime = Divide(1000, Made.targetUPS)
       /\ Finite(Made.updateTime)
       /\ ~Given("targetUPS") => Made.targetUPS = defaultUPS
       /\ Given("targetUPS") /\ built.config["targetUPS"] = 0
          => Made.targetUPS = defaultUPS
       /\ Given("targetUPS") /\ built.config["targetUPS"] > 0
          => Made.targetUPS = built.config["targetUPS"]

\* an engine constructed with targetUPS = 0 and another frame rate
C25_Witness ==
    /\ built.engine # <<>>
    /\ Given("targetUPS") /\ built.config["targetUPS"] = 0
    /\ Given("targetFPS") /\ built.config["targetFPS"] > 0
    /\ Made.updateTime = Divide(1000, 60)

\* the step is a keydown event of key k on the page
PageKey(k) == call'.events = call.events + 1 /\ call'.key = k

\* C26: a keydown of Enter on the start screen makes the game screen
\* active if and only if credits > 0, and then takes exactly one credit;
\* with credits = 0 it changes neither the credits nor the screens.  No
\* other step makes the game screen active.
C26_EnterTakesCredit ==
    [][/\ (PageKey("Enter") /\ ~active)
          => /\ active' <=> credits > 0
             /\ credits > 0 => credits' = credits - 1 /\ hidden'
             /\ credits = 0 => credits' = 0 /\ ~active' /\ hidden' = hidden
       /\ (~active /\ active')
          => PageKey("Enter") /\ credits > 0 /\ credits' = credits - 1]_vars

\* Enter with two credits: the game screen shows, one credit is left and
\* the audio pre-warm that precedes start() is under way
C26_Witness ==
    /\ call.key = "Enter"
    /\ active /\ hidden
    /\ credits = 1
    /\ prewarm = 1

\* C27: while the game screen is active a keydown of 1, 2, 0 or Enter
\* leaves the credits and the screens unchanged; a keydown of Escape makes
\* the game screen inactive and the start screen visible and leaves the
\* credits unchanged; on the start screen a keydown of Escape changes
\* nothing
C27_GameModeKeys ==
    [][/\ (active /\ \E k \in {"1", "2", "0", "Enter"} : PageKey(k))
          => /\ credits' = credits
             /\ active' /\ hidden' = hidden
       /\ (active /\ PageKey("Escape"))
          => /\ credits' = credits
             /\ ~active' /\ ~hidden'
       /\ (~active /\ PageKey("Escape"))
          => UNCHANGED <<credits, active, hidden, prewarm, engine, taxi, keys>>]_vars

\* Escape in a running game with a credit left: the start screen is back,
\* the credit is kept and the engine is stopped
C27_Witness ==
    /\ call.key = "Escape"
    /\ ~active /\ ~hidden
    /\ credits = 1
    /\ op.name = "stop" /\ op.applied

\* C28: the engine runs only while the game screen is active.  When the
\* game screen is inactive and no pre-warm is under way (the observer's
\* callbacks have run with the key events), the engine is not running and
\* the last operation has invoked neither the update nor the render hook.
C28_RunsOnlyWhileActive ==
    (~active /\ prewarm = 0)
    => /\ ~gameEngine.isRunning
       /\ \A i \in DOMAIN trace : trace[i] \notin {"onUpdate", "onRender"}

\* the last operation invoked the render hook
Rendered == \E i \in DOMAIN trace : trace[i] = "onRender"

\* C30: the alpha passed to the render hook, accumulator / updateTime, is
\* at least 0 and at most maxFrameSkip, and it is less than 1 when the
\* frame callback ran fewer than maxFrameSkip updates
C30_AlphaRange ==
    Rendered
    => /\ 0 <= op.alpha.num
       /\ op.alpha.num <= maxFrameSkip * op.alpha.den
       /\ op.updates < maxFrameSkip => op.alpha.num < op.alpha.den

\* C32: in every reachable state of the engine isPaused implies isRunning:
\* an engine that is stopped or was never started is not paused
C32_PausedImpliesRunning == gameEngine.isPaused => gameEngine.isRunning

\* C33: at most one frame callback is pending with the host: between frame
\* callbacks, whatever start(), stop(), pause() and resume() calls were
\* made, a running engine has exactly one pending callback, whose handle
\* is frameId, and a stopped engine has none
C33_OnePendingFrame ==
    /\ Cardinality(pending) <= 1
    /\ gameEngine.isRunning => pending = {gameEngine.frameId}
    /\ ~gameEngine.isRunning => pending = {}

\* start() was called on an engine that was already running, paused, after
\* a frame callback had been delivered under the pause
C33_Witness ==
    /\ op.name = "start" /\ ~op.applied
    /\ gameEngine.isRunning /\ gameEngine.isPaused /\ pauseInfo.frames
    /\ pending = {gameEngine.frameId}

C36_NothingDropped ==
    (~negDelta /\ ~run.over) =>
       /\ ~run.clamped
       /\ RanFrame => gameEngine.accumulator < updateTime

\* a frame callback with a delta of exactly maxFrameSkip * updateTime: it
\* ran maxFrameSkip updates and left no time behind, and every delta of the
\* run was in range
C36_Witness ==
    /\ RanFrame /\ op.deltaTime = maxFrameSkip * updateTime
    /\ op.updates = maxFrameSkip
    /\ ~negDelta /\ ~run.over
    /\ gameEngine.accumulator = op.accBefore
    /\ run.updates * updateTime + gameEngine.accumulator = run.delta

\* the engine is running and not paused
Live == gameEngine.isRunning /\ ~gameEngine.isPaused
\* the clock has at least an update interval and one more step to go (the
\* last frame callback may carry the timestamp of the step before the last);
\* the update hook has then been called at most once per step so far
Ahead == ticks + updateTime + 1 <= MaxLiveTicks

\* C37: progress under a fair host: while the engine is running and not
\* paused and the host keeps advancing its clock and delivering frame
\* callbacks with positive deltas, the update hook is called again: from
\* every such state with n calls of the update hook in this run, a state
\* with more than n is reached, unless the engine is paused or stopped
\* first
C37_Progress ==
    \A n \in 0..(MaxLiveTicks - updateTime - 1) :
       (Live /\ Ahead /\ run.updates = n) ~> (run.updates > n \/ ~Live)

\* a frame callback whose delta was below an update interval has run an
\* update from the time the accumulator carried, not the first of this run
C37_Witness ==
    /\ Live /\ RanFrame
    /\ 0 < op.deltaTime /\ op.deltaTime < updateTime
    /\ op.updates > 0 /\ run.updates > op.updates

\* C38: the credit counter is never negative, and it is the coins inserted
\* since the last reset minus the games started since then, whatever keys
\* went down on either screen.  call.coins counts the 1 and 2 keys pressed
\* on the start screen since the last 0 key there, call.games the times the
\* game screen was shown since then.
C38_CreditsBalance ==
    /\ credits >= 0
    /\ credits = call.coins - call.games

\* two credits were inserted and one of them has started a game
C38_Witness ==
    /\ call.coins = 2 /\ call.games = 1 /\ credits = 1
    /\ active /\ call.key = "Enter"

\* ---------------------------------------------- properties of updateGame
Updated == call.name = "updateGame"
\* where the last call of updateGame put the taxi before its boundary checks
Moved == Move(call.taxi, keys, call.dt)
NoKeys == ~keys.w /\ ~keys.s /\ ~keys.a /\ ~keys.d
InBounds(t, scr) ==
    /\ leftBoundary(scr) <= t.x
    /\ t.x <= rightBoundary(scr)
    /\ 0 <= t.y
    /\ t.y <= bottomBoundary(scr)

\* C12: after every call of updateGame the taxi is within the window:
\* halfWidth <= x <= screenWidth - halfWidth and 0 <= y <= screenHeight -
\* spriteHeight, whatever the taxi, the keys and the time step before
C12_PositionClamped == Updated => InBounds(taxi, screen)

\* a call that found the taxi beyond the right boundary with the thruster
\* pushing it further out
C12_Witness ==
    /\ Updated
    /\ keys.d
    /\ call.taxi.x > rightBoundary(screen)
    /\ taxi.x = rightBoundary(screen)

\* the general part of C13: a position that updateGame's integration puts
\* beyond a boundary ends on that boundary with the velocity of that axis 0,
\* and a check on one axis leaves the other axis as integrated
Inelastic ==
    /\ Moved.x < leftBoundary(screen)
       => taxi.x = leftBoundary(screen) /\ taxi.vx = 0
    /\ Moved.x > rightBoundary(screen)
       => taxi.x = rightBoundary(screen) /\ taxi.vx = 0
    /\ Moved.y < 0 => taxi.y = 0 /\ taxi.vy = 0
    /\ Moved.y > bottomBoundary(screen)
       => taxi.y = bottomBoundary(screen) /\ taxi.vy = 0
    /\ (leftBoundary(screen) <= Moved.x /\ Moved.x <= rightBoundary(screen))
       => taxi.x = Moved.x /\ taxi.vx = Moved.vx
    /\ (0 <= Moved.y /\ Moved.y < bottomBoundary(screen))
       => taxi.y = Moved.y /\ taxi.vy = Moved.vy

\* the taxi of C13's example: 5 pixels left of the left boundary, moving
\* left at 50 pixels per second
LeftExample ==
    /\ call.taxi.x = leftBoundary(screen) - Px(5)
    /\ call.taxi.vx = Vel(-50)

\* C13 as stated: collisions are inelastic, and the taxi of the example
\* ends one update, for any positive time step, at x = halfWidth with vx = 0
C13_Original ==
    Updated => /\ Inelastic
               /\ LeftExample => (taxi.x = leftBoundary(screen) /\ taxi.vx = 0)

\* C13 amended: collisions are inelastic, and the taxi of the example ends
\* one update, for any positive time step, at x = halfWidth with vx = 0 if
\* the right thruster (key d) is off
C13_Inelastic ==
    Updated => /\ Inelastic
               /\ (LeftExample /\ ~keys.d)
                  => (taxi.x = leftBoundary(screen) /\ taxi.vx = 0)

\* the taxi of the example after an update of several intervals in which
\* it also fell
C13_Witness ==
    /\ Updated
    /\ LeftExample
    /\ ~keys.d
    /\ call.dt = maxFrameSkip * updateTime
    /\ taxi.x = leftBoundary(screen)
    /\ taxi.vy > 0

\* C14: after every call of updateGame onGround is true if and only if y is
\* the lower boundary screenHeight - spriteHeight; it is false after a clamp
\* at the upper boundary and between the boundaries
C14_OnGround ==
    Updated => /\ taxi.onGround <=> taxi.y = bottomBoundary(screen)
               /\ Moved.y < 0 => ~taxi.onGround
               /\ (0 < taxi.y /\ taxi.y < bottomBoundary(screen)) => ~taxi.onGround

\* a taxi that was flagged as on the ground and was clamped at the top
C14_Witness ==
    /\ Updated
    /\ call.taxi.onGround
    /\ Moved.y < 0
    /\ taxi.y = 0
    /\ ~taxi.onGround

\* the configuration leaves the hover thrust to be derived from gravity
AutoHover == config.hoverThrust = "null"

\* C16 as stated: in hover mode with the derived hover thrust, a taxi with
\* vy = 0 and no key held has vy = 0 after every update, and its y never
\* changes.
C16_Original ==
    (Updated /\ AutoHover /\ taxi.hoverMode /\ NoKeys /\ call.first.vy = 0)
    => (taxi.vy = 0 /\ taxi.y = call.first.y)

\* C16: in hover mode with the derived hover thrust, a taxi with vy = 0 and
\* no key held has vy = 0 after every update; its y does not change when it
\* is between the top of the window and the bottom boundary.
C16_HoverHolds ==
    (Updated /\ AutoHover /\ taxi.hoverMode /\ NoKeys /\ call.first.vy = 0)
    => /\ taxi.vy = 0
       /\ (0 <= call.first.y /\ call.first.y <= bottomBoundary(screen))
          => taxi.y = call.first.y

\* two updates of a hovering taxi that still drifts sideways
C16_Witness ==
    /\ Updated /\ AutoHover /\ taxi.hoverMode /\ NoKeys
    /\ call.first.vy = 0 /\ call.first.vx # 0
    /\ 0 <= call.first.y /\ call.first.y < bottomBoundary(screen)
    /\ call.n = 2
    /\ taxi.x # call.first.x
    /\ taxi.vy = 0 /\ taxi.y = call.first.y

\* one velocity component before and after an update of a hovering taxi
TowardZero(before, after) ==
    /\ before > 0 => (0 <= after /\ after < before)
    /\ before < 0 => (before < after /\ after <= 0)
    /\ before = 0 => after = 0

\* C17: in hover mode with no key held and the derived hover thrust, an
\* update moves each non-zero velocity component strictly toward zero and
\* never past it, and leaves a component that is 0 at 0.
C17_Damping ==
    (Updated /\ AutoHover /\ call.taxi.hoverMode /\ NoKeys)
    => /\ TowardZero(call.taxi.vy, taxi.vy)
       /\ TowardZero(call.taxi.vx, taxi.vx)

\* a step that would overshoot stops vy at zero, away from any boundary,
\* and a longer fall is slowed but not stopped
C17_Witness ==
    /\ Updated /\ AutoHover /\ call.taxi.hoverMode /\ NoKeys /\ ~call.hit
    /\ call.taxi.vy > 0
    /\ call.taxi.vy - config.hoverDamping * call.dt < 0
    /\ taxi.vy = 0

\* the velocity updateGame computes before it moves the taxi
NewVelocity ==
    IF call.taxi.hoverMode THEN HoverVelocity(call.taxi, keys, call.dt)
    ELSE RegularVelocity(call.taxi, keys, call.dt)

\* the last call found the taxi at rest in regular mode, no key held, and
\* did not move it to a boundary
RestRegular ==
    /\ Updated /\ NoKeys /\ ~call.hit
    /\ ~call.taxi.hoverMode
    /\ call.taxi.vx = 0 /\ call.taxi.vy = 0

\* C29: updateGame integrates by semi-implicit Euler.  The position it
\* computes before the boundary checks is the old position plus the new
\* velocity times dt, on both axes, and that is where the taxi is after a
\* call that hit no boundary.  A taxi at rest in regular mode with no key
\* held is moved down by (gravityPixels - regularFlightThrust) * dt * dt,
\* which is more than 0.
C29_SemiImplicitEuler ==
    Updated
    => /\ Moved.x = call.taxi.x + NewVelocity.vx * call.dt
       /\ Moved.y = call.taxi.y + NewVelocity.vy * call.dt
       /\ ~call.hit => /\ taxi.x = call.taxi.x + taxi.vx * call.dt
                       /\ taxi.y = call.taxi.y + taxi.vy * call.dt
       /\ RestRegular
          => /\ taxi.y - call.taxi.y
                = (gravityPixels - config.regularFlightThrust) * call.dt * call.dt
             /\ taxi.y > call.taxi.y
             /\ taxi.x = call.taxi.x

\* the first update of a taxi at rest in mid-air, with the engine's time step
C29_Witness ==
    /\ RestRegular
    /\ call.n = 1
    /\ call.dt = updateTime
    /\ InBounds(call.taxi, screen)
    /\ taxi.vy = (gravityPixels - config.regularFlightThrust) * updateTime
    /\ taxi.y = call.taxi.y + taxi.vy * updateTime

\* the taxi as gameEngine.onInit leaves it in the window scr
AtStart(t, scr) ==
    /\ t.x * config.taxiStartX[2] = scr.innerWidth * config.taxiStartX[1]
    /\ t.y * config.taxiStartY[2] = scr.innerHeight * config.taxiStartY[1]
    /\ t.vx = 0 /\ t.vy = 0
    /\ ~t.onGround /\ ~t.hoverMode /\ ~t.facingRight /\ ~t.landingGear

\* C31: every start() that takes effect resets the taxi before any update
\* of the new run: the start hook runs first, no update hook runs in
\* start(), and start() leaves the taxi at the configured start fractions
\* of the window, at rest, with onGround, hoverMode, facingRight and
\* landingGear false, whatever the taxi was before
C31_StartResetsTaxi ==
    [][IsCall("start") /\ call'.n = call.n /\ op'.applied
         => /\ AtStart(taxi', screen')
            /\ trace'[1] = "onInit"
            /\ Count(trace', "onUpdate") = 0
            /\ op'.calls = <<>>]_vars

\* start() has just restarted an engine whose earlier run had updates, and
\* whose first run began with the taxi moving, on the ground, hovering,
\* facing right and with the gear down
C31_Witness ==
    /\ op.name = "start" /\ op.applied /\ call.name = "updateGame"
    /\ call.n > 0 /\ call.taxi # taxi
    /\ call.first.vx # 0
    /\ call.first.onGround /\ call.first.hoverMode
    /\ call.first.facingRight /\ call.first.landingGear
    /\ AtStart(taxi, screen)

\* ------------------------------------------------ properties of the keys
\* C15: the hover-mode and landing-gear toggles are edge-triggered.  While
\* a key is held, neither a keydown the host repeats for it nor an update
\* tick flips hoverMode or landingGear: one press flips the boolean once.
C15_EdgeTriggered ==
    [][(\/ call'.name = "keydown" /\ call'.repeat
        \/ call'.name = "updateGame")
       => /\ taxi'.hoverMode = taxi.hoverMode
          /\ taxi'.landingGear = taxi.landingGear]_vars

\* the taxi without its landing-gear flag, and with the flag the other way
Physics(t) == [f \in DOMAIN t \ {"landingGear"} |-> t[f]]
OtherGear(t) == [t EXCEPT !.landingGear = ~@]

\* C20: the landing-gear flag has no effect on the physics.  Every step
\* takes the taxi to the same x, y, vx, vy, onGround, hoverMode and
\* facingRight as it takes the taxi with the flag the other way: an update
\* neither reads nor writes the flag, and a key event changes at most the
\* flag (space) or hoverMode (h), whatever the flag is.
C20_GearHasNoEffect ==
    [][/\ call'.name = "updateGame"
          => /\ Physics(taxi') = Physics(updateGame(OtherGear(taxi), keys, call'.dt, screen))
             /\ taxi'.landingGear = taxi.landingGear
       /\ call'.name = "keydown"
          => /\ Physics(taxi') = Physics(Toggle(OtherGear(taxi), call'.key, call'.live))
             /\ call'.key = " " => Physics(taxi') = Physics(taxi)
       /\ call'.name = "keyup" => taxi' = taxi]_vars

\* the gear is down and an update has moved the taxi
C20_Witness ==
    /\ Updated
    /\ call.taxi.landingGear /\ taxi.landingGear
    /\ taxi.y # call.taxi.y
    /\ taxi.vy # call.taxi.vy

\* the keys that are down drive thruster k: the key k itself or its arrow key
Down(k) == \E h \in held : Thruster(h) = k

\* C21: at every update tick keys[k], for k among w, s, a, d, is true if
\* and only if the key k or its arrow key is down at that moment, whatever
\* keydown, keyup, pause and resume events came before.
C21_KeysReflectHeld ==
    Updated => \A k \in {"w", "s", "a", "d"} : keys[k] <=> Down(k)

\* the taxi without hoverMode and landingGear
Flight(t) == [f \in DOMAIN t \ {"hoverMode", "landingGear"} |-> t[f]]

\* C22 as stated: a render, a keydown and a keyup leave every field of the
\* taxi unchanged, and an update leaves the keys unchanged
C22_Original ==
    [][/\ call'.name \in {"renderGame", "keydown", "keyup"} => taxi' = taxi
       /\ call'.name = "updateGame" => keys' = keys]_vars

\* C22: a render and a keyup leave every field of the taxi unchanged.  A
\* keydown leaves x, y, vx, vy, onGround and facingRight unchanged; it flips
\* hoverMode if the key is h and landingGear if the key is the space bar,
\* when the engine is running and not paused, and changes neither
\* otherwise.  An update leaves the keys, hoverMode and landingGear
\* unchanged.
C22_TaxiWriters ==
    [][/\ call'.name \in {"renderGame", "keyup"} => taxi' = taxi
       /\ call'.name = "keydown"
          => /\ Flight(taxi') = Flight(taxi)
             /\ taxi'.hoverMode # taxi.hoverMode
                <=> call'.key \in {"h", "H"} /\ call'.live
             /\ taxi'.landingGear # taxi.landingGear
                <=> call'.key = " " /\ call'.live
       /\ call'.name = "updateGame"
          => /\ keys' = keys
             /\ taxi'.hoverMode = taxi.hoverMode
             /\ taxi'.landingGear = taxi.landingGear]_vars

\* a render that draws a taxi in hover mode that an update has moved while
\* a thruster key is down
C22_Witness ==
    /\ call.name = "renderGame"
    /\ taxi.hoverMode
    /\ taxi.vx # 0
    /\ call.sprite.left = taxi.x - taxiWidth(screen) \div 2
    /\ \E k \in DOMAIN keys : keys[k]

\* C34: while the engine is paused the simulation is frozen: the p key
\* that pauses, and every key-down, key-up, frame callback and clock tick
\* from then until the engine is no longer paused, leave every field of the
\* taxi as it was when pause() was called
C34_PausedFrozen ==
    [][gameEngine.isPaused \/ gameEngine'.isPaused => taxi' = taxi]_vars

\* the engine was paused by the p key with the up thruster held, an update
\* interval or more has passed since, and a frame callback was delivered
\* under the pause
C34_Witness ==
    /\ gameEngine.isPaused /\ pauseInfo.frames
    /\ now - pauseInfo.at >= updateTime
    /\ op.name = "gameLoop" /\ ~op.ran
    /\ call.name = "keydown" /\ call.key = "p"
    /\ keys["w"]

\* ------------------------------------------------- JavaScript numbers
\* The taxi's coordinates and velocities are JavaScript numbers: IEEE-754
\* binary64, every operation rounded to the nearest double, ties to even.
\* A number is [s, m, e] with the value s * m * 2^e: s = 1 or -1, m a
\* natural number, e an integer.  A natural number is the sequence of its
\* digits in base Limb, lowest first, without leading zeros.  A double has
\* m = 0 or Mantissa bits in m.  Exponent overflow, subnormal numbers and
\* the sign of zero are left out: the magnitudes here are between 2^-7 and
\* 2^10.  The arithmetic is written as functions, which take their
\* arguments as values.
Limb == 2^15
Mantissa == 52 + 1
Digits == Seq(Nat)
Number == [s : {1, -1}, m : Digits, e : Int]

Trim[a \in Digits] ==
    IF a # <<>> /\ a[Len(a)] = 0 THEN Trim[SubSeq(a, 1, Len(a) - 1)] ELSE a

Limbs[n \in Nat] == IF n = 0 THEN <<>> ELSE <<n % Limb>> \o Limbs[n \div Limb]

AddC[a \in Digits, b \in Digits, c \in Nat] ==
    IF a = <<>> /\ b = <<>>
    THEN (IF c = 0 THEN <<>> ELSE <<c>>)
    ELSE LET x == IF a = <<>> THEN 0 ELSE Head(a)
             y == IF b = <<>> THEN 0 ELSE Head(b)
         IN <<(x + y + c) % Limb>>
            \o AddC[IF a = <<>> THEN a ELSE Tail(a),
                    IF b = <<>> THEN b ELSE Tail(b), (x + y + c) \div Limb]

NAdd(a, b) == AddC[a, b, 0]

\* a - b - c for a >= b + c
SubB[a \in Digits, b \in Digits, c \in Nat] ==
    IF a = <<>>
    THEN <<>>
    ELSE LET d == Head(a) - (IF b = <<>> THEN 0 ELSE Head(b)) - c
         IN <<IF d < 0 THEN d + Limb ELSE d>>
            \o SubB[Tail(a), IF b = <<>> THEN b ELSE Tail(b),
                    IF d < 0 THEN 1 ELSE 0]

NSub(a, b) == Trim[SubB[a, b, 0]]

\* a * m + c for m, c < Limb
MulS[a \in Digits, m \in Nat, c \in Nat] ==
    IF a = <<>>
    THEN (IF c = 0 THEN <<>> ELSE <<c>>)
    ELSE <<(Head(a) * m + c) % Limb>>
         \o MulS[Tail(a), m, (Head(a) * m + c) \div Limb]

NMul[a \in Digits, b \in Digits] ==
    IF b = <<>>
    THEN <<>>
    ELSE Trim[AddC[MulS[a, Head(b), 0], <<0>> \o NMul[a, Tail(b)], 0]]

\* -1, 0, 1 as a < b, a = b, a > b
NCmp[a \in Digits, b \in Digits] ==
    IF Len(a) < Len(b) THEN -1
    ELSE IF Len(a) > Len(b) THEN 1
    ELSE IF a = <<>> THEN 0
    ELSE IF a[Len(a)] < b[Len(b)] THEN -1
    ELSE IF a[Len(a)] > b[Len(b)] THEN 1
    ELSE NCmp[SubSeq(a, 1, Len(a) - 1), SubSeq(b, 1, Len(b) - 1)]

\* a * 2^k
Shl[a \in Digits, k \in Nat] ==
    IF a = <<>> THEN <<>>
    ELSE [i \in 1..(k \div 15) |-> 0] \o MulS[a, 2^(k % 15), 0]

\* (r * Limb^Len(a) + a) \div d for r < d < Limb
DivS[a \in Digits, d \in Nat, r \in Nat] ==
    IF a = <<>>
    THEN <<>>
    ELSE DivS[SubSeq(a, 1, Len(a) - 1), d, (r * Limb + a[Len(a)]) % d]
         \o <<(r * Limb + a[Len(a)]) \div d>>

\* a \div 2^k
Shr[a \in Digits, k \in Nat] ==
    IF k \div 15 >= Len(a) THEN <<>>
    ELSE Trim[DivS[SubSeq(a, k \div 15 + 1, Len(a)), 2^(k % 15), 0]]

Bits[n \in Nat] == IF n = 0 THEN 0 ELSE 1 + Bits[n \div 2]

BitLen[a \in Digits] ==
    IF a = <<>> THEN 0 ELSE 15 * (Len(a) - 1) + Bits[a[Len(a)]]

\* the number of zero bits below the lowest one bit of a # 0
LowZeros[a \in Digits] ==
    IF a[1] = 0 THEN 15 + LowZeros[Tail(a)]
    ELSE IF a[1] % 2 = 0 THEN 1 + LowZeros[<<a[1] \div 2>>]
    ELSE 0

\* exact arithmetic on s * m * 2^e
Zero == [s |-> 1, m |-> <<>>, e |-> 0]
Sgn[x \in Number] == IF x.m = <<>> THEN 0 ELSE x.s
Neg[x \in Number] == [x EXCEPT !.s = -x.s]
ExactMul[x \in Number, y \in Number] ==
    IF x.m = <<>> \/ y.m = <<>> THEN Zero
    ELSE [s |-> x.s * y.s, m |-> NMul[x.m, y.m], e |-> x.e + y.e]

\* s * a * 2^e + t * b * 2^e
AddAligned[s \in {1, -1}, a \in Digits, t \in {1, -1}, b \in Digits, e \in Int] ==
    IF s = t THEN [s |-> s, m |-> NAdd(a, b), e |-> e]
    ELSE IF NCmp[a, b] = 0 THEN Zero
    ELSE IF NCmp[a, b] = 1 THEN [s |-> s, m |-> NSub(a, b), e |-> e]
    ELSE [s |-> t, m |-> NSub(b, a), e |-> e]

ExactAdd[x \in Number, y \in Number] ==
    IF x.m = <<>> THEN y
    ELSE IF y.m = <<>> THEN x
    ELSE IF x.e < y.e
    THEN AddAligned[x.s, x.m, y.s, Shl[y.m, y.e - x.e], x.e]
    ELSE AddAligned[x.s, Shl[x.m, x.e - y.e], y.s, y.m, y.e]

Less(x, y) == Sgn[ExactAdd[x, Neg[y]]] < 0
Same(x, y) == Sgn[ExactAdd[x, Neg[y]]] = 0

\* s * q * 2^e with q of Mantissa bits, or of one more after a carry
Normal[s \in {1, -1}, q \in Digits, e \in Int] ==
    IF BitLen[q] > Mantissa THEN [s |-> s, m |-> Shr[q, 1], e |-> e + 1]
    ELSE [s |-> s, m |-> q, e |-> e]

\* m = q * 2^k + r with q of Mantissa bits: q, or q + 1 when r is more than
\* half of 2^k, or half of it and q is odd
RoundUp[q \in Digits, r \in Digits, k \in Nat] ==
    LET c == NCmp[Shl[r, 1], Shl[<<1>>, k]]
    IN IF c = 1 \/ (c = 0 /\ q[1] % 2 = 1) THEN NAdd(q, <<1>>) ELSE q

Nearest[x \in Number, k \in Nat, q \in Digits] ==
    Normal[x.s, RoundUp[q, NSub(x.m, Shl[q, k]), k], x.e + k]

\* the double nearest to x, ties to the even mantissa
Double[x \in Number] ==
    IF x.m = <<>> THEN Zero
    ELSE IF BitLen[x.m] <= Mantissa
    THEN [s |-> x.s, m |-> Shl[x.m, Mantissa - BitLen[x.m]],
          e |-> x.e - (Mantissa - BitLen[x.m])]
    ELSE Nearest[x, BitLen[x.m] - Mantissa, Shr[x.m, BitLen[x.m] - Mantissa]]

\* an integer literal, and the operators +, -, *, / of the language
Num[n \in Int] ==
    Double[[s |-> IF n < 0 THEN -1 ELSE 1,
            m |-> Limbs[IF n < 0 THEN -n ELSE n], e |-> 0]]
FAdd(x, y) == Double[ExactAdd[x, y]]
FSub(x, y) == Double[ExactAdd[x, Neg[y]]]
FMul(x, y) == Double[ExactMul[x, y]]

\* a / d with one more bit, set when a remainder is left
Quotient[a \in Digits, d \in Nat, q \in Digits] ==
    AddC[Shl[q, 1], IF NCmp[a, MulS[q, d, 0]] = 0 THEN <<>> ELSE <<1>>, 0]

\* x / y for a divisor y = d * 2^k with d < Limb: the quotient to more
\* bits than a double holds
DivSmall[x \in Number, y \in Number, k \in Nat, d \in Nat, a \in Digits] ==
    Double[[s |-> x.s * y.s, m |-> Quotient[a, d, Trim[DivS[a, d, 0]]],
            e |-> x.e - (y.e + k) - (Mantissa + 3) - 1]]

FDiv[x \in Number, y \in Number] ==
    IF x.m = <<>> THEN Zero
    ELSE DivSmall[x, y, LowZeros[y.m], Shr[y.m, LowZeros[y.m]][1],
                  Shl[x.m, Mantissa + 3]]

\* ------------------------------------- updateGame in double precision
\* updateGame as above, with every number a double and every operation
\* rounded.  The window and the sprite measure whole pixels.
Pixels(p) == Num[p \div Px(1)]

\* this.updateTime = 1000 / this.targetUPS, in milliseconds
updateTimeDouble == FDiv[Num[1000], Num[targetUPS]]

\* this.onUpdate(this.updateTime / 1000): the time step in seconds
deltaTimeDouble == FDiv[updateTimeDouble, Num[1000]]

\* gravity: 9.81 (the double nearest to 981 / 100)
gravityDouble == FDiv[Num[config.gravityX100], Num[100]]

gravityPixelsDouble == FMul(gravityDouble, Num[config.pixelsPerMeter])

hoverThrustDouble ==
    IF config.hoverThrust = "null" THEN gravityPixelsDouble
    ELSE Num[config.hoverThrust]

\* the values of taxi, its numbers as doubles
Taxis ==
    [x : Number, y : Number, vx : Number, vy : Number, onGround : BOOLEAN,
     hoverMode : BOOLEAN, facingRight : BOOLEAN, landingGear : BOOLEAN]

\* gameEngine.onInit: the taxi at its start position, at rest
onInitDouble(scr) ==
    [x |-> FMul(Pixels(scr.innerWidth),
                FDiv[Num[config.taxiStartX[1]], Num[config.taxiStartX[2]]]),
     y |-> FMul(Pixels(scr.innerHeight),
                FDiv[Num[config.taxiStartY[1]], Num[config.taxiStartY[2]]]),
     vx |-> Zero, vy |-> Zero, onGround |-> FALSE,
     hoverMode |-> FALSE, facingRight |-> FALSE, landingGear |-> FALSE]

\* v less step, or more step, stopped at zero
Slowed[v \in Number] == IF Less(v, Zero) THEN Zero ELSE v
Raised[v \in Number] == IF Less(Zero, v) THEN Zero ELSE v

DampDouble[v \in Number, dt \in Number] ==
    IF Less(Zero, v) THEN Slowed[FSub(v, FMul(Num[config.hoverDamping], dt))]
    ELSE IF Less(v, Zero) THEN Raised[FAdd(v, FMul(Num[config.hoverDamping], dt))]
    ELSE v

SidewaysDouble[t \in Taxis, k \in Keys, dt \in Number] ==
    LET step == FMul(Num[config.thrusterForce], dt)
        vx1 == IF k.a THEN FSub(t.vx, step) ELSE t.vx
        vx2 == IF k.d THEN FAdd(vx1, step) ELSE vx1
    IN [t EXCEPT !.vx = vx2,
                 !.facingRight = IF k.d THEN TRUE ELSE IF k.a THEN FALSE ELSE @]

UpDownDouble[vy \in Number, k \in Keys, dt \in Number] ==
    LET step == FMul(Num[config.thrusterForce], dt)
        vy1 == IF k.w THEN FSub(vy, step) ELSE vy
    IN IF k.s THEN FAdd(vy1, step) ELSE vy1

HoverVelocityDouble(t, k, dt) ==
    SidewaysDouble[
        [t EXCEPT !.vx = DampDouble[t.vx, dt],
                  !.vy = FAdd(UpDownDouble[FSub(DampDouble[t.vy, dt],
                                                FMul(hoverThrustDouble, dt)), k, dt],
                              FMul(gravityPixelsDouble, dt))], k, dt]

\* regular mode without the constant upward thrust
RegularVelocityDoubleNoLift(t, k, dt) ==
    LET t1 == SidewaysDouble[[t EXCEPT !.vy = UpDownDouble[t.vy, k, dt]], k, dt]
    IN [t1 EXCEPT !.vy = FAdd(@, FMul(gravityPixelsDouble, dt))]

RegularVelocityDouble(t, k, dt) ==
    LET vy1 == FSub(t.vy, FMul(Num[config.regularFlightThrust], dt))
        t1 == SidewaysDouble[[t EXCEPT !.vy = UpDownDouble[vy1, k, dt]], k, dt]
    IN [t1 EXCEPT !.vy = FAdd(@, FMul(gravityPixelsDouble, dt))]

IntegrateDouble[t \in Taxis, dt \in Number] ==
    [t EXCEPT !.x = FAdd(@, FMul(t.vx, dt)), !.y = FAdd(@, FMul(t.vy, dt))]

MoveDouble[t \in Taxis, k \in Keys, dt \in Number] ==
    IntegrateDouble[IF t.hoverMode THEN HoverVelocityDouble(t, k, dt)
                    ELSE RegularVelocityDouble(t, k, dt), dt]

leftBoundaryDouble(scr) == FDiv[Pixels(taxiWidth(scr)), Num[2]]
rightBoundaryDouble(scr) ==
    FSub(Pixels(scr.innerWidth), FDiv[Pixels(taxiWidth(scr)), Num[2]])
bottomBoundaryDouble(scr) == FSub(Pixels(scr.innerHeight), Pixels(taxiHeight(scr)))

CollideXDouble[t \in Taxis, scr \in Windows] ==
    IF Less(t.x, leftBoundaryDouble(scr))
    THEN [t EXCEPT !.x = leftBoundaryDouble(scr), !.vx = Zero]
    ELSE IF Less(rightBoundaryDouble(scr), t.x)
    THEN [t EXCEPT !.x = rightBoundaryDouble(scr), !.vx = Zero]
    ELSE t

CollideYDouble[t \in Taxis, scr \in Windows] ==
    IF Less(t.y, Zero)
    THEN [t EXCEPT !.y = Zero, !.vy = Zero, !.onGround = FALSE]
    ELSE IF ~Less(t.y, bottomBoundaryDouble(scr))
    THEN [t EXCEPT !.y = bottomBoundaryDouble(scr), !.vy = Zero, !.onGround = TRUE]
    ELSE [t EXCEPT !.onGround = FALSE]

updateGameDouble(t, k, dt, scr) ==
    CollideYDouble[CollideXDouble[MoveDouble[t, k, dt], scr], scr]

\* the taxi moved out of the window and was put back
Outside[t \in Taxis, scr \in Windows] ==
    \/ Less(t.x, leftBoundaryDouble(scr))
    \/ Less(rightBoundaryDouble(scr), t.x)
    \/ Less(t.y, Zero)
    \/ ~Less(t.y, bottomBoundaryDouble(scr))

\* the game after onInit, in either flight mode, with no key or one
\* thruster key held
InitDouble ==
    /\ now = 0
    /\ frameStamp = 0
    /\ ticks = 0
    /\ gameEngine = Started.e
    /\ hooks = GameHooks
    /\ pending = Started.pending
    /\ trace = Started.trace
    /\ op = [Call("start", TRUE) EXCEPT !.accBefore = 0, !.wasPaused = FALSE]
    /\ phase = "running"
    /\ pauseInfo = NoPause
    /\ negDelta = FALSE
    /\ run = NoRun
    /\ screen = Screen0
    /\ \E h \in BOOLEAN : taxi = [onInitDouble(Screen0) EXCEPT !.hoverMode = h]
    /\ keys \in {k \in Keys : Cardinality({n \in DOMAIN k : k[n]}) <= 1}
    /\ held = {k \in {"w", "s", "a", "d"} : keys[k]}
    /\ call = [NoCall EXCEPT !.first = taxi, !.taxi = taxi]
    /\ built = initGame
    /\ credits = 0
    /\ active = TRUE
    /\ hidden = TRUE
    /\ prewarm = 0

\* the engine's call of the update hook with its fixed time step
UpdateDouble ==
    /\ gameEngine.isRunning
    /\ ~gameEngine.isPaused
    /\ call.n < MaxDoubleUpdates
    /\ taxi' = updateGameDouble(taxi, keys, deltaTimeDouble, screen)
    /\ call' = [call EXCEPT !.name = "updateGame", !.taxi = taxi,
                            !.hit = Outside[MoveDouble[taxi, keys, deltaTimeDouble], screen],
                            !.n = @ + 1,
                            !.clear = @ /\ ~Outside[MoveDouble[taxi, keys, deltaTimeDouble], screen]]
    /\ UNCHANGED <<engine, keys, held, screen, page>>

DoubleSpec == InitDouble /\ [][UpdateDouble]_vars

\* ------------------------- properties of updateGame in double precision
\* the net acceleration of idle regular flight, in px/s^2
IdleAcceleration == gravityPixels - config.regularFlightThrust

\* n * (gravity * pixelsPerMeter - regularFlightThrust) * dt, not rounded
IdleSpeed(n) == ExactMul[Num[n * IdleAcceleration], deltaTimeDouble]

\* n * 2^-k
Ulps(n, k) == [s |-> 1, m |-> Limbs[n], e |-> -k]

\* |x - y| <= tol
Within(x, y, tol) ==
    /\ ~Less(tol, ExactAdd[x, Neg[y]])
    /\ ~Less(tol, ExactAdd[y, Neg[x]])

\* regular mode, no key held, the last step an update
IdleRegular == Updated /\ ~call.taxi.hoverMode /\ NoKeys

\* C18 as stated: in regular mode with no key held and no boundary hit, an
\* update changes vy by exactly (gravity * pixelsPerMeter -
\* regularFlightThrust) * dt, so after n updates from rest vy is the double
\* nearest to n * (gravityPixels - regularFlightThrust) * dt (481 after 60
\* updates of 1/60 s), and y grows with every update.
C18_Original ==
    IdleRegular
    => /\ ~call.hit => Same(ExactAdd[taxi.vy, Neg[call.taxi.vy]], Double[IdleSpeed(1)])
       /\ call.clear => Same(taxi.vy, Double[IdleSpeed(call.n)])
       /\ ~call.hit => Less(call.taxi.y, taxi.y)

\* C18: in regular mode with no key held and no boundary hit, an update
\* changes vy by (gravity * pixelsPerMeter - regularFlightThrust) * dt up
\* to the rounding of the double-precision operations, less than 2^-42
\* px/s for an update; after n updates from rest vy is within n * 2^-42
\* px/s of n * (gravityPixels - regularFlightThrust) * dt; and y grows with
\* every update.
C18_IdleFall ==
    IdleRegular
    => /\ ~call.hit => Within(ExactAdd[taxi.vy, Neg[call.taxi.vy]], IdleSpeed(1), Ulps(1, 42))
       /\ call.clear => Within(taxi.vy, IdleSpeed(call.n), Ulps(call.n, 42))
       /\ ~call.hit => Less(call.taxi.y, taxi.y)

\* one second of updates from rest (60 updates of 1/60 s): vy is next to
\* 481 px/s and is not 481
C18_Witness ==
    /\ IdleRegular /\ call.clear
    /\ Same(call.first.vy, Zero)
    /\ call.n = targetUPS
    /\ Within(taxi.vy, Num[IdleAcceleration], Ulps(call.n, 42))
    /\ ~Same(taxi.vy, Num[IdleAcceleration])

====
